---- MODULE Spec2Model ----
(***************************************************************************)
(* The StoryChat credit ledger: the credit_transactions table, the         *)
(* user_chapters entitlements and the request handlers that read and write *)
(* them.  Every D1 statement (an awaited db.prepare(...).run()/first()) is  *)
(* one atomic step; a handler is a sequence of such steps and the steps of  *)
(* different requests interleave freely, as they do between awaits on a     *)
(* shared D1 database.                                                      *)
(***************************************************************************)
EXTENDS Integers, Sequences, FiniteSets, TLC

\* ---------------------------------------------------------------- bounds
\* Number of HTTP requests (one per worker) that a behaviour issues.
NumWorkers == 2
\* Number of SDK calls (CreditManager) that a behaviour issues.
NumCalls == 3
\* Number of credit SDK calls (user_credits implementation) a behaviour issues.
NumSdkCalls == 3
\* Number of rate-limited unlock requests a behaviour issues, and the number
\* of 60-second windows the clock moves through.
NumClients == 3
MaxWindow == 1
\* Number of CreditGateManager calls a behaviour issues, and the largest
\* messageIndex they pass.
NumGateCalls == 2
MaxIndex == 4
\* Number of register / Google login requests a behaviour issues, and the
\* number of milliseconds Date.now() moves through.
NumAuthCalls == 2
MaxClock == 1
\* Number of trackEvent calls a behaviour issues, and config.batchSize.
NumEvents == 4
BatchSize == 2

\* ------------------------------------------------------ program constants
\* Welcome credits of a registered / seeded account.
WelcomeBonus == 50
\* Cost hard-coded by the Hono unlock route.
HonoCost == 10
\* unlock_cost of the paid demo chapters.
ChapterCost == 10
\* unlockChapter's default cost argument.
DefaultCost == 10
\* checkCreditRateLimit: 10 credit operations per window.
RateLimit == 10
\* evaluateGate: free messages of a chapter without a policy row.
DefaultFree == 3

Workers == 1..NumWorkers
Callers == 1..NumCalls
SdkCallers == 1..NumSdkCalls
RateClients == 1..NumClients
GateCallers == 1..NumGateCalls
AuthCallers == 1..NumAuthCalls
Slots == Workers \cup Callers \cup SdkCallers \cup RateClients \cup GateCallers
         \cup AuthCallers
Users == {"u1"}
Admin == "admin1"
None == "none"

\* chapters(id, is_free, unlock_cost): one free first chapter, two paid ones.
Chapters == {"ch1", "ch2", "ch3"}
is_free(c) == c = "ch1"
unlock_cost(c) == IF c \in {"ch1", "ch4"} THEN 0
                  ELSE IF c = "ch5" THEN 2 * ChapterCost
                  ELSE ChapterCost
\* chapters rows beyond the demo content: a chapter that is not marked free
\* and costs nothing, and one that costs twice the default.
Catalog == Chapters \cup {"ch4", "ch5"}

\* Idempotency keys.  A key is a pair <<tag, n>>.
WelcomeKey(u) == <<"welcome_" \o u, 0>>
\* `unlock_${userId}_${chapterId}_${Date.now()}` and `admin_..._${Date.now()}`:
\* a key generated by the server for request w (the clock differs per request).
AutoKey(w) == <<"auto", w>>
\* Keys a caller may put in the request body.
CallerKeys == {<<"k", 1>>} \cup {WelcomeKey(u) : u \in Users}
\* idempotencyKey?: string -- the body may leave it out.
NoKey == <<"none", 0>>

\* `tx_${Date.now()}_${random}` / `tx_${nanoid(12)}`: fresh per request.
TxId(w) == w

CreditTypes == {"PURCHASE", "REFUND", "ADMIN_ADD", "BONUS", "PROMO"}
DebitTypes == {"CONSUMPTION", "ADMIN_REMOVE"}
TransactionType == CreditTypes \cup DebitTypes

VARIABLES
    ledger,         \* credit_transactions, in rowid order
    userChapters,   \* user_chapters rows (all carry unlocked_at)
    req,            \* the request each worker handles
    pc,             \* the statement each worker is about to run
    cur,            \* the handler's local currentBalance
    spendResult,    \* what spendCredits returned to the unlock route
    resp,           \* the response sent, once the handler has returned
    userCredits,    \* credit SDK: user_credits rows, user_id -> balance
    chapterUnlocks, \* credit SDK: chapter_unlocks rows
    creditLog,      \* credit SDK: its credit_transactions audit log
    chapterLog,     \* credit SDK: chapter_transactions rows
    idempotencyStore, \* credit SDK: the module-level Map
    kv,             \* RATELIMIT namespace: window key -> counter
    now,            \* Math.floor(Date.now() / 1000 / windowSeconds)
    admitted,       \* per window key, the requests the limiter let through
    creditGates,    \* credit_gates rows, by chapter_id
    decision,       \* what evaluateGate / checkBonusEligibility returned
    readProgress,   \* user_chapters rows whose last_message_index was written
    completed,      \* user_chapters rows whose completed_at was written
    totalReads,     \* chapters.total_reads
    chapterEvents,  \* events rows inserted by the chapter messages route
    accounts,       \* users rows
    clock,          \* Date.now() of the auth worker, in milliseconds
    configured,     \* analytics: config !== null
    eventQueue,     \* analytics: the module-level eventQueue
    flushTimer,     \* analytics: flushTimer !== null (the interval is running)
    inFlight,       \* analytics: batches of flushEvents calls awaiting the store
    storedEvents,   \* analytics: events rows written by flushEvents, in order
    accepted,       \* analytics: events pushed by trackEvent
    rejected,       \* analytics: events whose trackEvent call threw
    shutdown        \* analytics: how far shutdownAnalytics has come

\* The tables of the API worker, of the credit SDK and of the rate limiter.
apiVars == <<ledger, userChapters, cur, spendResult>>
sdkVars == <<userCredits, chapterUnlocks, creditLog, chapterLog, idempotencyStore>>
rateVars == <<kv, now, admitted>>
gateVars == <<creditGates, decision>>
readVars == <<readProgress, completed, totalReads, chapterEvents>>
authVars == <<accounts, clock>>
analyticsVars == <<configured, eventQueue, flushTimer, inFlight, storedEvents,
                   accepted, rejected, shutdown>>

vars == <<ledger, userChapters, req, pc, cur, spendResult, resp,
          userCredits, chapterUnlocks, creditLog, chapterLog, idempotencyStore,
          kv, now, admitted, creditGates, decision,
          readProgress, completed, totalReads, chapterEvents,
          accounts, clock, configured, eventQueue, flushTimer, inFlight,
          storedEvents, accepted, rejected, shutdown>>

\* ------------------------------------------------------------- the store
Entry(tx, u, t, amt, after, c, k, adm) ==
    [txId |-> tx, user |-> u, ttype |-> t, amount |-> amt,
     balanceAfter |-> after, chapter |-> c, key |-> k, admin |-> adm]

RECURSIVE SumFromConsumptionOnly(_, _, _)
\* A balance query that knows CONSUMPTION as the only debit (the type list in
\* the migration's column comment, which leaves ADMIN_REMOVE out).
SumFromConsumptionOnly(log, u, i) ==
    IF i > Len(log) THEN 0
    ELSE (IF log[i].user # u THEN 0
          ELSE IF log[i].ttype # "CONSUMPTION" THEN log[i].amount
          ELSE 0 - log[i].amount) + SumFromConsumptionOnly(log, u, i + 1)

RECURSIVE SumFrom(_, _, _)
\* SELECT COALESCE(SUM(CASE WHEN transaction_type IN (...) THEN credits_amount
\* ELSE -credits_amount END), 0) FROM credit_transactions WHERE user_id = ?
SumFrom(log, u, i) ==
    IF i > Len(log) THEN 0
    ELSE (IF log[i].user # u THEN 0
          ELSE IF log[i].ttype \in CreditTypes THEN log[i].amount
          ELSE 0 - log[i].amount) + SumFrom(log, u, i + 1)

getBalance(u) == SumFrom(ledger, u, 1)

\* SELECT transaction_id, balance_after FROM credit_transactions
\* WHERE idempotency_key = ? AND user_id = ?   (.first(): lowest rowid)
Matching(u, k) == {i \in 1..Len(ledger) : ledger[i].key = k /\ ledger[i].user = u}
HasExisting(u, k) == Matching(u, k) # {}
Existing(u, k) == ledger[CHOOSE i \in Matching(u, k) : \A j \in Matching(u, k) : i <= j]

\* SELECT id FROM user_chapters WHERE user_id = ? AND chapter_id = ?
\*   AND unlocked_at IS NOT NULL
alreadyUnlocked(u, c) == <<u, c>> \in userChapters

\* --------------------------------------------------------------- requests
NoReq == [op |-> None, user |-> None, chapter |-> None, key |-> NoKey,
          amount |-> 0, ttype |-> None, after |-> {}, at |-> 0]
NoResult == [success |-> FALSE, error |-> None, txId |-> 0, newBalance |-> 0]
NoResp == [success |-> FALSE, status |-> 0, error |-> None, txId |-> 0,
           newBalance |-> 0, charged |-> 0, required |-> 0, thrown |-> FALSE]

\* What a CreditGateManager call returns (GateDecision, bonus eligibility).
NoDecision == [shouldShow |-> FALSE, creditsRequired |-> 0, messagesRemaining |-> 0,
               reason |-> None, eligible |-> FALSE, bonusCredits |-> 0]
Done == {w \in Slots : pc[w] = "done"}

Request(o, u, c, k, amt, t) ==
    [op |-> o, user |-> u, chapter |-> c, key |-> k, amount |-> amt,
     ttype |-> t, after |-> Done, at |-> now]

\* Requests are handed to the workers in index order.
CanStart(w) == pc[w] = "idle" /\ \A v \in Slots : v < w => pc[v] # "idle"

\* error.message of a statement the store rejected
StoreFailure == "D1_ERROR"
Reply(w, st, err, tx, bal, ch) ==
    /\ resp' = [resp EXCEPT ![w] = [success |-> st = 200, status |-> st,
                                    error |-> err, txId |-> tx,
                                    newBalance |-> bal, charged |-> ch,
                                    required |-> 0, thrown |-> FALSE]]
    /\ pc' = [pc EXCEPT ![w] = "done"]

\* The 402 body: { error, requiredCredits, yourBalance }
PaymentRequired(w, err, cost, bal) ==
    /\ resp' = [resp EXCEPT ![w] = [NoResp EXCEPT !.status = 402, !.error = err,
                                                  !.required = cost, !.newBalance = bal]]
    /\ pc' = [pc EXCEPT ![w] = "done"]

\* A TransactionResult returned by an SDK call.
Return(w, ok, err, tx, bal) ==
    /\ resp' = [resp EXCEPT ![w] = [success |-> ok, status |-> 0, error |-> err,
                                    txId |-> tx, newBalance |-> bal, charged |-> 0,
                                    required |-> 0, thrown |-> FALSE]]
    /\ pc' = [pc EXCEPT ![w] = "done"]

\* An exception that leaves the called function (throw new Error(msg)).
Throw(w, msg) ==
    /\ resp' = [resp EXCEPT ![w] = [NoResp EXCEPT !.error = msg, !.thrown = TRUE]]
    /\ pc' = [pc EXCEPT ![w] = "done"]

\* A Map / key-value namespace with no entries, and map.set(k, v).
Empty == [x \in {} |-> 0]
Put(f, k, v) == [x \in DOMAIN f \cup {k} |-> IF x = k THEN v ELSE f[x]]

\* No chapter has been read yet.
NothingRead ==
    /\ readProgress = {}
    /\ completed = {}
    /\ totalReads = [c \in Catalog |-> 0]
    /\ chapterEvents = {}

\* The users rows of seed.sql that the model follows: the demo reader.
SeedAccounts == {[id |-> "u1", email |-> "user@demo.com", provider |-> "email",
                  providerId |-> None]}

\* The analytics module as loaded: config = null, eventQueue = [],
\* flushTimer = null.
AnalyticsLoaded ==
    /\ configured = FALSE
    /\ eventQueue = <<>>
    /\ flushTimer = FALSE
    /\ inFlight = {}
    /\ storedEvents = <<>>
    /\ accepted = {}
    /\ rejected = {}
    /\ shutdown = [state |-> "idle", queued |-> {}]   \* shutdownAnalytics not called

\* Nobody has signed up since the seed, and analytics has not been started.
SeedOnly ==
    /\ accounts = SeedAccounts
    /\ clock = 0
    /\ AnalyticsLoaded

\* The database after migrations and seed.sql: every user holds the welcome
\* bonus; part of it may already have been taken back by an admin.
SeedLedger(u) == <<Entry(0, u, "BONUS", WelcomeBonus, WelcomeBonus, None, WelcomeKey(u), None)>>
DeductedLedger(u, amt) ==
    Append(SeedLedger(u),
           Entry(0 - 1, u, "ADMIN_REMOVE", amt, WelcomeBonus - amt, None, <<"seed", 1>>, Admin))

Init ==
    /\ ledger \in {SeedLedger("u1"),
                   DeductedLedger("u1", WelcomeBonus - ChapterCost),
                   DeductedLedger("u1", WelcomeBonus)}
    /\ userChapters = {}
    /\ req = [w \in Slots |-> NoReq]
    /\ pc = [w \in Slots |-> "idle"]
    /\ cur = [w \in Slots |-> 0]
    /\ spendResult = [w \in Slots |-> NoResult]
    /\ resp = [w \in Slots |-> NoResp]
    /\ userCredits = Empty
    /\ chapterUnlocks = {}
    /\ creditLog = <<>>
    /\ chapterLog = <<>>
    /\ idempotencyStore = Empty
    /\ kv = Empty
    /\ now = 0
    /\ admitted = Empty
    /\ creditGates = Empty
    /\ decision = [w \in Slots |-> NoDecision]
    /\ NothingRead
    /\ SeedOnly

\* ------------------------------------- POST /api/credits/unlock (credits.ts)
UnlockRequest(w) ==
    /\ CanStart(w)
    /\ \E u \in Users, c \in Chapters, k \in CallerKeys \cup {NoKey} :
          req' = [req EXCEPT ![w] = Request("unlock", u, c, k, unlock_cost(c), None)]
    /\ pc' = [pc EXCEPT ![w] = "unlock_check"]
    /\ UNCHANGED <<ledger, userChapters, cur, spendResult, resp>>
    /\ UNCHANGED <<sdkVars, rateVars>>
    /\ UNCHANGED gateVars
    /\ UNCHANGED readVars
    /\ UNCHANGED <<authVars, analyticsVars>>

\* const key = idempotencyKey || `unlock_${auth.userId}_${chapterId}_${Date.now()}`
UnlockKey(w) == IF req[w].key = NoKey THEN AutoKey(w) ELSE req[w].key

\* "Check if already unlocked", then the is_free branch or spendCredits' entry.
UnlockCheck(w) ==
    /\ pc[w] = "unlock_check"
    /\ IF alreadyUnlocked(req[w].user, req[w].chapter)
       THEN /\ Reply(w, 200, "Already unlocked", 0, 0, 0)
            /\ UNCHANGED spendResult
       ELSE IF is_free(req[w].chapter)
       THEN /\ pc' = [pc EXCEPT ![w] = "unlock_free"]
            /\ UNCHANGED <<resp, spendResult>>
       ELSE IF req[w].amount <= 0
       THEN /\ spendResult' = [spendResult EXCEPT ![w] =
                   [success |-> FALSE, error |-> "Amount must be positive",
                    txId |-> 0, newBalance |-> 0]]
            /\ pc' = [pc EXCEPT ![w] = "unlock_grant"]
            /\ UNCHANGED resp
       ELSE /\ pc' = [pc EXCEPT ![w] = "spend_existing"]
            /\ UNCHANGED <<resp, spendResult>>
    /\ UNCHANGED <<ledger, userChapters, req, cur>>
    /\ UNCHANGED <<sdkVars, rateVars>>
    /\ UNCHANGED gateVars
    /\ UNCHANGED readVars
    /\ UNCHANGED <<authVars, analyticsVars>>

\* INSERT INTO user_chapters ...: UNIQUE(user_id, chapter_id) makes a second
\* row for the pair fail, and the route's catch turns that into a 500.
UnlockFree(w) ==
    /\ pc[w] = "unlock_free"
    /\ IF <<req[w].user, req[w].chapter>> \in userChapters
       THEN /\ Reply(w, 500, "UNIQUE constraint failed", 0, 0, 0)
            /\ UNCHANGED userChapters
       ELSE /\ userChapters' = userChapters \cup {<<req[w].user, req[w].chapter>>}
            /\ pc' = [pc EXCEPT ![w] = "unlock_free_reply"]
            /\ UNCHANGED resp
    /\ UNCHANGED <<ledger, req, cur, spendResult>>
    /\ UNCHANGED <<sdkVars, rateVars>>
    /\ UNCHANGED gateVars
    /\ UNCHANGED readVars
    /\ UNCHANGED <<authVars, analyticsVars>>

\* creditsRemaining: await getBalance(db, auth.userId)
UnlockFreeReply(w) ==
    /\ pc[w] = "unlock_free_reply"
    /\ Reply(w, 200, "Chapter unlocked (free)", 0, getBalance(req[w].user), 0)
    /\ UNCHANGED <<ledger, userChapters, req, cur, spendResult>>
    /\ UNCHANGED <<sdkVars, rateVars>>
    /\ UNCHANGED gateVars
    /\ UNCHANGED readVars
    /\ UNCHANGED <<authVars, analyticsVars>>

\* spendCredits: "Check for duplicate (idempotency)"
SpendExisting(w) ==
    /\ pc[w] = "spend_existing"
    /\ IF HasExisting(req[w].user, UnlockKey(w))
       THEN /\ spendResult' = [spendResult EXCEPT ![w] =
                   [success |-> TRUE, error |-> None,
                    txId |-> Existing(req[w].user, UnlockKey(w)).txId,
                    newBalance |-> Existing(req[w].user, UnlockKey(w)).balanceAfter]]
            /\ pc' = [pc EXCEPT ![w] = "unlock_grant"]
       ELSE /\ pc' = [pc EXCEPT ![w] = "spend_balance"]
            /\ UNCHANGED spendResult
    /\ UNCHANGED <<ledger, userChapters, req, cur, resp>>
    /\ UNCHANGED <<sdkVars, rateVars>>
    /\ UNCHANGED gateVars
    /\ UNCHANGED readVars
    /\ UNCHANGED <<authVars, analyticsVars>>

\* A spendCredits that goes on to the INSERT whatever balance it read.
SpendBalanceUnchecked(w) ==
    /\ pc[w] = "spend_balance"
    /\ cur' = [cur EXCEPT ![w] = getBalance(req[w].user)]
    /\ pc' = [pc EXCEPT ![w] = "spend_insert"]
    /\ UNCHANGED <<ledger, userChapters, req, resp, spendResult>>
    /\ UNCHANGED <<sdkVars, rateVars>>
    /\ UNCHANGED gateVars
    /\ UNCHANGED readVars
    /\ UNCHANGED <<authVars, analyticsVars>>

\* spendCredits: "Get current balance" and the currentBalance < amount test
SpendBalance(w) ==
    /\ pc[w] = "spend_balance"
    /\ cur' = [cur EXCEPT ![w] = getBalance(req[w].user)]
    /\ IF getBalance(req[w].user) < req[w].amount
       THEN /\ spendResult' = [spendResult EXCEPT ![w] =
                   [success |-> FALSE, error |-> "Insufficient credits",
                    txId |-> 0, newBalance |-> getBalance(req[w].user)]]
            /\ pc' = [pc EXCEPT ![w] = "unlock_grant"]
       ELSE /\ pc' = [pc EXCEPT ![w] = "spend_insert"]
            /\ UNCHANGED spendResult
    /\ UNCHANGED <<ledger, userChapters, req, resp>>
    /\ UNCHANGED <<sdkVars, rateVars>>
    /\ UNCHANGED gateVars
    /\ UNCHANGED readVars
    /\ UNCHANGED <<authVars, analyticsVars>>

\* spendCredits: "Insert transaction" with newBalance = currentBalance - amount
SpendInsert(w) ==
    /\ pc[w] = "spend_insert"
    /\ ledger' = Append(ledger,
            Entry(TxId(w), req[w].user, "CONSUMPTION", req[w].amount,
                  cur[w] - req[w].amount, req[w].chapter, UnlockKey(w), None))
    /\ spendResult' = [spendResult EXCEPT ![w] =
            [success |-> TRUE, error |-> None, txId |-> TxId(w),
             newBalance |-> cur[w] - req[w].amount]]
    /\ pc' = [pc EXCEPT ![w] = "unlock_grant"]
    /\ UNCHANGED <<userChapters, req, cur, resp>>
    /\ UNCHANGED <<sdkVars, rateVars>>
    /\ UNCHANGED gateVars
    /\ UNCHANGED readVars
    /\ UNCHANGED <<authVars, analyticsVars>>

\* spendCredits: the INSERT is rejected by the store (D1 error); the catch block
\* reads the balance and returns { success: false, error: 'Transaction failed' }.
SpendInsertFails(w) ==
    /\ pc[w] = "spend_insert"
    /\ spendResult' = [spendResult EXCEPT ![w] =
            [success |-> FALSE, error |-> "Transaction failed",
             txId |-> 0, newBalance |-> getBalance(req[w].user)]]
    /\ pc' = [pc EXCEPT ![w] = "unlock_grant"]
    /\ UNCHANGED <<ledger, userChapters, req, cur, resp>>
    /\ UNCHANGED <<sdkVars, rateVars>>
    /\ UNCHANGED gateVars
    /\ UNCHANGED readVars
    /\ UNCHANGED <<authVars, analyticsVars>>

\* if (!spendResult.success) 402; else "Create user_chapters entry"
UnlockGrant(w) ==
    /\ pc[w] = "unlock_grant"
    /\ IF ~spendResult[w].success
       THEN /\ PaymentRequired(w, spendResult[w].error, unlock_cost(req[w].chapter),
                               spendResult[w].newBalance)
            /\ UNCHANGED userChapters
       ELSE IF <<req[w].user, req[w].chapter>> \in userChapters
       THEN /\ Reply(w, 500, "UNIQUE constraint failed", 0, 0, 0)
            /\ UNCHANGED userChapters
       ELSE /\ userChapters' = userChapters \cup {<<req[w].user, req[w].chapter>>}
            /\ Reply(w, 200, "Chapter unlocked", spendResult[w].txId,
                     spendResult[w].newBalance, req[w].amount)
    /\ UNCHANGED <<ledger, req, cur, spendResult>>
    /\ UNCHANGED <<sdkVars, rateVars>>
    /\ UNCHANGED gateVars
    /\ UNCHANGED readVars
    /\ UNCHANGED <<authVars, analyticsVars>>

\* The user_chapters INSERT is rejected by the store (D1 error) after
\* spendCredits has returned: the route answers 500 and nothing more is written.
UnlockGrantFails(w) ==
    /\ pc[w] = "unlock_grant"
    /\ spendResult[w].success
    /\ Reply(w, 500, StoreFailure, 0, 0, 0)
    /\ UNCHANGED <<ledger, userChapters, req, cur, spendResult>>
    /\ UNCHANGED <<sdkVars, rateVars>>
    /\ UNCHANGED gateVars
    /\ UNCHANGED readVars
    /\ UNCHANGED <<authVars, analyticsVars>>

\* ------------------------------ POST /api/admin/credits/add (admin routes)
\* Amounts an admin or SDK caller asks for.
Amounts == {ChapterCost}

AdminAddRequest(w) ==
    /\ CanStart(w)
    /\ \E u \in Users, amt \in Amounts :
          req' = [req EXCEPT ![w] = Request("admin_add", u, None, NoKey, amt, "ADMIN_ADD")]
    /\ pc' = [pc EXCEPT ![w] = "admin_add_balance"]
    /\ UNCHANGED <<ledger, userChapters, cur, spendResult, resp>>
    /\ UNCHANGED <<sdkVars, rateVars>>
    /\ UNCHANGED gateVars
    /\ UNCHANGED readVars
    /\ UNCHANGED <<authVars, analyticsVars>>

\* "Get current balance" (after the amount and user checks)
AdminAddBalance(w) ==
    /\ pc[w] = "admin_add_balance"
    /\ cur' = [cur EXCEPT ![w] = getBalance(req[w].user)]
    /\ pc' = [pc EXCEPT ![w] = "admin_add_insert"]
    /\ UNCHANGED <<ledger, userChapters, req, spendResult, resp>>
    /\ UNCHANGED <<sdkVars, rateVars>>
    /\ UNCHANGED gateVars
    /\ UNCHANGED readVars
    /\ UNCHANGED <<authVars, analyticsVars>>

\* "Insert transaction": ADMIN_ADD with newBalance = currentBalance + amount
\* and the generated key `admin_${auth.userId}_${userId}_${Date.now()}`
AdminAddInsert(w) ==
    /\ pc[w] = "admin_add_insert"
    /\ ledger' = Append(ledger,
            Entry(TxId(w), req[w].user, "ADMIN_ADD", req[w].amount,
                  cur[w] + req[w].amount, None, AutoKey(w), Admin))
    /\ Reply(w, 200, None, TxId(w), cur[w] + req[w].amount, 0)
    /\ UNCHANGED <<userChapters, req, cur, spendResult>>
    /\ UNCHANGED <<sdkVars, rateVars>>
    /\ UNCHANGED gateVars
    /\ UNCHANGED readVars
    /\ UNCHANGED <<authVars, analyticsVars>>

\* --------------------------- POST /api/admin/credits/deduct (admin routes)
AdminDeductRequest(w) ==
    /\ CanStart(w)
    /\ \E u \in Users, amt \in Amounts :
          req' = [req EXCEPT ![w] = Request("admin_deduct", u, None, NoKey, amt, "ADMIN_REMOVE")]
    /\ pc' = [pc EXCEPT ![w] = "admin_deduct_balance"]
    /\ UNCHANGED <<ledger, userChapters, cur, spendResult, resp>>
    /\ UNCHANGED <<sdkVars, rateVars>>
    /\ UNCHANGED gateVars
    /\ UNCHANGED readVars
    /\ UNCHANGED <<authVars, analyticsVars>>

\* "Get current balance" and the currentBalance < amount test (400)
AdminDeductBalance(w) ==
    /\ pc[w] = "admin_deduct_balance"
    /\ cur' = [cur EXCEPT ![w] = getBalance(req[w].user)]
    /\ IF getBalance(req[w].user) < req[w].amount
       THEN Reply(w, 400, "Insufficient credits", 0, getBalance(req[w].user), 0)
       ELSE /\ pc' = [pc EXCEPT ![w] = "admin_deduct_insert"]
            /\ UNCHANGED resp
    /\ UNCHANGED <<ledger, userChapters, req, spendResult>>
    /\ UNCHANGED <<sdkVars, rateVars>>
    /\ UNCHANGED gateVars
    /\ UNCHANGED readVars
    /\ UNCHANGED <<authVars, analyticsVars>>

\* INSERT ... 'ADMIN_REMOVE' with newBalance = currentBalance - amount
AdminDeductInsert(w) ==
    /\ pc[w] = "admin_deduct_insert"
    /\ ledger' = Append(ledger,
            Entry(TxId(w), req[w].user, "ADMIN_REMOVE", req[w].amount,
                  cur[w] - req[w].amount, None, AutoKey(w), Admin))
    /\ Reply(w, 200, None, TxId(w), cur[w] - req[w].amount, 0)
    /\ UNCHANGED <<userChapters, req, cur, spendResult>>
    /\ UNCHANGED <<sdkVars, rateVars>>
    /\ UNCHANGED gateVars
    /\ UNCHANGED readVars
    /\ UNCHANGED <<authVars, analyticsVars>>

\* ------------------------------------------------ GET /api/credits/balance
BalanceRequest(w) ==
    /\ CanStart(w)
    /\ \E u \in Users :
          req' = [req EXCEPT ![w] = Request("balance", u, None, NoKey, 0, None)]
    /\ pc' = [pc EXCEPT ![w] = "balance_read"]
    /\ UNCHANGED <<ledger, userChapters, cur, spendResult, resp>>
    /\ UNCHANGED <<sdkVars, rateVars>>
    /\ UNCHANGED gateVars
    /\ UNCHANGED readVars
    /\ UNCHANGED <<authVars, analyticsVars>>

\* const balance = await getBalance(db, auth.userId)
BalanceRead(w) ==
    /\ pc[w] = "balance_read"
    /\ Reply(w, 200, None, 0, getBalance(req[w].user), 0)
    /\ UNCHANGED <<ledger, userChapters, req, cur, spendResult>>
    /\ UNCHANGED <<sdkVars, rateVars>>
    /\ UNCHANGED gateVars
    /\ UNCHANGED readVars
    /\ UNCHANGED <<authVars, analyticsVars>>

\* ------------------------------------------- GET /api/chapters/:id/messages
MessagesRequest(w) ==
    /\ CanStart(w)
    /\ \E u \in Users, c \in Chapters :
          req' = [req EXCEPT ![w] = Request("messages", u, c, NoKey, 0, None)]
    /\ pc' = [pc EXCEPT ![w] = "messages_check"]
    /\ UNCHANGED <<ledger, userChapters, cur, spendResult, resp>>
    /\ UNCHANGED <<sdkVars, rateVars>>
    /\ UNCHANGED gateVars
    /\ UNCHANGED readVars
    /\ UNCHANGED <<authVars, analyticsVars>>

\* A messages route that serves every chapter without looking for the
\* user_chapters row.
MessagesCheckUnlocked(w) ==
    /\ pc[w] = "messages_check"
    /\ pc' = [pc EXCEPT ![w] =
            IF <<req[w].user, req[w].chapter>> \in userChapters
            THEN "messages_read_row" ELSE "messages_read"]
    /\ UNCHANGED <<apiVars, req, resp, sdkVars, rateVars, gateVars, readVars>>
    /\ UNCHANGED <<authVars, analyticsVars>>

\* "Check if user has unlocked this chapter":
\* isUnlocked = !!(chapter.is_free || userChapter?.unlocked_at), else 403
MessagesCheck(w) ==
    /\ pc[w] = "messages_check"
    /\ IF is_free(req[w].chapter) \/ <<req[w].user, req[w].chapter>> \in userChapters
       THEN /\ pc' = [pc EXCEPT ![w] =
                   IF <<req[w].user, req[w].chapter>> \in userChapters
                   THEN "messages_read_row" ELSE "messages_read"]
            /\ UNCHANGED resp
       ELSE Reply(w, 403, "Chapter locked", 0, 0, 0)
    /\ UNCHANGED <<ledger, userChapters, req, cur, spendResult>>
    /\ UNCHANGED <<sdkVars, rateVars>>
    /\ UNCHANGED gateVars
    /\ UNCHANGED readVars
    /\ UNCHANGED <<authVars, analyticsVars>>

\* "Get messages", "Update last read message" when the user_chapters row was
\* found, then the two statements that are started without await (the read
\* counter and the chapter_started event may or may not reach the store) and
\* the 200 response.  Every chapter of the catalog has messages.
MessagesRead(w) ==
    /\ pc[w] \in {"messages_read", "messages_read_row"}
    /\ readProgress' = IF pc[w] = "messages_read_row"
                       THEN readProgress \cup {<<req[w].user, req[w].chapter>>}
                       ELSE readProgress
    /\ \E counted, logged \in BOOLEAN :
          /\ totalReads' = IF counted
                           THEN [totalReads EXCEPT ![req[w].chapter] = @ + 1]
                           ELSE totalReads
          /\ chapterEvents' = IF logged
                              THEN chapterEvents \cup
                                   {[user |-> req[w].user, chapter |-> req[w].chapter, by |-> w]}
                              ELSE chapterEvents
    /\ Reply(w, 200, None, 0, 0, 0)
    /\ UNCHANGED <<apiVars, req, completed, sdkVars, rateVars, gateVars>>
    /\ UNCHANGED <<authVars, analyticsVars>>

\* POST /api/chapters/:id/complete: UPDATE user_chapters SET completed_at
\* WHERE user_id = ? AND chapter_id = ?, then { success: true }
CompleteChapter(w) ==
    /\ CanStart(w)
    /\ \E u \in Users, c \in Chapters :
          /\ req' = [req EXCEPT ![w] = Request("complete", u, c, NoKey, 0, None)]
          /\ completed' = IF <<u, c>> \in userChapters
                          THEN completed \cup {<<u, c>>}
                          ELSE completed
    /\ Reply(w, 200, None, 0, 0, 0)
    /\ UNCHANGED <<apiVars, readProgress, totalReads, chapterEvents,
                   sdkVars, rateVars, gateVars>>
    /\ UNCHANGED <<authVars, analyticsVars>>

Next ==
    \E w \in Workers :
        \/ UnlockRequest(w)
        \/ UnlockCheck(w)
        \/ UnlockFree(w)
        \/ UnlockFreeReply(w)
        \/ SpendExisting(w)
        \/ SpendBalance(w)
        \/ SpendInsert(w)
        \/ SpendInsertFails(w)
        \/ UnlockGrant(w)
        \/ UnlockGrantFails(w)
        \/ AdminAddRequest(w)
        \/ AdminAddBalance(w)
        \/ AdminAddInsert(w)
        \/ AdminDeductRequest(w)
        \/ AdminDeductBalance(w)
        \/ AdminDeductInsert(w)
        \/ BalanceRequest(w)
        \/ BalanceRead(w)
        \/ MessagesRequest(w)
        \/ MessagesCheck(w)
        \/ MessagesRead(w)
        \/ CompleteChapter(w)

Spec == Init /\ [][Next]_vars

\* ------------------------------------------ Hono credits router (part_000)
HonoUnlockRequest(w) ==
    /\ CanStart(w)
    /\ \E u \in Users, c \in Chapters, k \in CallerKeys \cup {NoKey} :
          req' = [req EXCEPT ![w] = Request("unlock", u, c, k, HonoCost, None)]
    /\ pc' = [pc EXCEPT ![w] = "hono_check"]
    /\ UNCHANGED <<apiVars, resp, sdkVars, rateVars>>
    /\ UNCHANGED gateVars
    /\ UNCHANGED readVars
    /\ UNCHANGED <<authVars, analyticsVars>>

\* alreadyUnlocked, then chapter.is_free === 1
HonoUnlockCheck(w) ==
    /\ pc[w] = "hono_check"
    /\ IF alreadyUnlocked(req[w].user, req[w].chapter)
       THEN Reply(w, 200, "Already unlocked", 0, 0, 0)
       ELSE /\ pc' = [pc EXCEPT ![w] =
                   IF is_free(req[w].chapter) THEN "hono_free" ELSE "hono_balance"]
            /\ UNCHANGED resp
    /\ UNCHANGED <<apiVars, req, sdkVars, rateVars>>
    /\ UNCHANGED gateVars
    /\ UNCHANGED readVars
    /\ UNCHANGED <<authVars, analyticsVars>>

\* INSERT INTO user_chapters ...; return { message: 'Chapter unlocked (free)' }
HonoUnlockFree(w) ==
    /\ pc[w] = "hono_free"
    /\ IF <<req[w].user, req[w].chapter>> \in userChapters
       THEN /\ Reply(w, 500, "UNIQUE constraint failed", 0, 0, 0)
            /\ UNCHANGED userChapters
       ELSE /\ userChapters' = userChapters \cup {<<req[w].user, req[w].chapter>>}
            /\ Reply(w, 200, "Chapter unlocked (free)", 0, 0, 0)
    /\ UNCHANGED <<ledger, cur, spendResult, req, sdkVars, rateVars>>
    /\ UNCHANGED gateVars
    /\ UNCHANGED readVars
    /\ UNCHANGED <<authVars, analyticsVars>>

\* const balance = await getBalance(db, userId); if (balance < 10) 402
HonoBalance(w) ==
    /\ pc[w] = "hono_balance"
    /\ cur' = [cur EXCEPT ![w] = getBalance(req[w].user)]
    /\ IF getBalance(req[w].user) < HonoCost
       THEN PaymentRequired(w, "Insufficient credits", HonoCost, getBalance(req[w].user))
       ELSE /\ pc' = [pc EXCEPT ![w] = "hono_insert"]
            /\ UNCHANGED resp
    /\ UNCHANGED <<ledger, userChapters, spendResult, req, sdkVars, rateVars>>
    /\ UNCHANGED gateVars
    /\ UNCHANGED readVars
    /\ UNCHANGED <<authVars, analyticsVars>>

\* INSERT INTO credit_transactions (..., 'CONSUMPTION', 10, newBalance, ...)
HonoSpendInsert(w) ==
    /\ pc[w] = "hono_insert"
    /\ ledger' = Append(ledger,
            Entry(TxId(w), req[w].user, "CONSUMPTION", HonoCost, cur[w] - HonoCost,
                  req[w].chapter, UnlockKey(w), None))
    /\ pc' = [pc EXCEPT ![w] = "hono_grant"]
    /\ UNCHANGED <<userChapters, cur, spendResult, req, resp, sdkVars, rateVars>>
    /\ UNCHANGED gateVars
    /\ UNCHANGED readVars
    /\ UNCHANGED <<authVars, analyticsVars>>

\* INSERT INTO user_chapters ..., the messages SELECT and the 200 response
HonoGrant(w) ==
    /\ pc[w] = "hono_grant"
    /\ IF <<req[w].user, req[w].chapter>> \in userChapters
       THEN /\ Reply(w, 500, "UNIQUE constraint failed", 0, 0, 0)
            /\ UNCHANGED userChapters
       ELSE /\ userChapters' = userChapters \cup {<<req[w].user, req[w].chapter>>}
            /\ Reply(w, 200, "Chapter unlocked", 0, cur[w] - HonoCost, HonoCost)
    /\ UNCHANGED <<ledger, cur, spendResult, req, sdkVars, rateVars>>
    /\ UNCHANGED gateVars
    /\ UNCHANGED readVars
    /\ UNCHANGED <<authVars, analyticsVars>>

\* The user_chapters INSERT is rejected by the store (D1 error) after the
\* CONSUMPTION entry was inserted: catch (error) answers 500.
HonoGrantFails(w) ==
    /\ pc[w] = "hono_grant"
    /\ Reply(w, 500, StoreFailure, 0, 0, 0)
    /\ UNCHANGED <<ledger, userChapters, cur, spendResult, req, sdkVars, rateVars>>
    /\ UNCHANGED gateVars
    /\ UNCHANGED readVars
    /\ UNCHANGED <<authVars, analyticsVars>>

\* POST /api/credits/admin/add (requireAdmin)
HonoAdminAddRequest(w) ==
    /\ CanStart(w)
    /\ \E u \in Users, amt \in Amounts :
          req' = [req EXCEPT ![w] = Request("admin_add", u, None, NoKey, amt, "ADMIN_ADD")]
    /\ pc' = [pc EXCEPT ![w] = "hono_add_balance"]
    /\ UNCHANGED <<apiVars, resp, sdkVars, rateVars>>
    /\ UNCHANGED gateVars
    /\ UNCHANGED readVars
    /\ UNCHANGED <<authVars, analyticsVars>>

\* const currentBalance = await getBalance(db, targetUserId)
HonoAdminAddBalance(w) ==
    /\ pc[w] = "hono_add_balance"
    /\ cur' = [cur EXCEPT ![w] = getBalance(req[w].user)]
    /\ pc' = [pc EXCEPT ![w] = "hono_add_insert"]
    /\ UNCHANGED <<ledger, userChapters, spendResult, req, resp, sdkVars, rateVars>>
    /\ UNCHANGED gateVars
    /\ UNCHANGED readVars
    /\ UNCHANGED <<authVars, analyticsVars>>

\* INSERT INTO credit_transactions (transaction_id, user_id, transaction_type,
\* credits_amount, balance_after, idempotency_key, reason, created_at): the
\* column list has no admin_user_id, so the row keeps its NULL default.
HonoAdminAddInsert(w) ==
    /\ pc[w] = "hono_add_insert"
    /\ ledger' = Append(ledger,
            Entry(TxId(w), req[w].user, "ADMIN_ADD", req[w].amount,
                  cur[w] + req[w].amount, None, AutoKey(w), None))
    /\ Reply(w, 200, None, TxId(w), cur[w] + req[w].amount, 0)
    /\ UNCHANGED <<userChapters, cur, spendResult, req, sdkVars, rateVars>>
    /\ UNCHANGED gateVars
    /\ UNCHANGED readVars
    /\ UNCHANGED <<authVars, analyticsVars>>

\* GET /api/credits/balance
HonoBalanceRequest(w) ==
    /\ CanStart(w)
    /\ \E u \in Users :
          req' = [req EXCEPT ![w] = Request("balance", u, None, NoKey, 0, None)]
    /\ pc' = [pc EXCEPT ![w] = "hono_balance_read"]
    /\ UNCHANGED <<apiVars, resp, sdkVars, rateVars>>
    /\ UNCHANGED gateVars
    /\ UNCHANGED readVars
    /\ UNCHANGED <<authVars, analyticsVars>>

HonoBalanceRead(w) ==
    /\ pc[w] = "hono_balance_read"
    /\ Reply(w, 200, None, 0, getBalance(req[w].user), 0)
    /\ UNCHANGED <<apiVars, req, sdkVars, rateVars>>
    /\ UNCHANGED gateVars
    /\ UNCHANGED readVars
    /\ UNCHANGED <<authVars, analyticsVars>>

NextHono ==
    \E w \in Workers :
        \/ HonoUnlockRequest(w)
        \/ HonoUnlockCheck(w)
        \/ HonoUnlockFree(w)
        \/ HonoBalance(w)
        \/ HonoSpendInsert(w)
        \/ HonoGrant(w)
        \/ HonoGrantFails(w)
        \/ HonoAdminAddRequest(w)
        \/ HonoAdminAddBalance(w)
        \/ HonoAdminAddInsert(w)
        \/ HonoBalanceRequest(w)
        \/ HonoBalanceRead(w)

SpecHono == Init /\ [][NextHono]_vars

\* ------------------------- the unlock routes over the wider chapter catalog
\* POST /api/credits/unlock (credits.ts) for any chapter of the catalog
CatalogUnlockRequest(w) ==
    /\ CanStart(w)
    /\ \E u \in Users, c \in Catalog, k \in CallerKeys \cup {NoKey} :
          req' = [req EXCEPT ![w] = Request("unlock", u, c, k, unlock_cost(c), None)]
    /\ pc' = [pc EXCEPT ![w] = "unlock_check"]
    /\ UNCHANGED <<apiVars, resp, sdkVars, rateVars, gateVars>>
    /\ UNCHANGED readVars
    /\ UNCHANGED <<authVars, analyticsVars>>

NextCatalog ==
    \E w \in Workers :
        \/ CatalogUnlockRequest(w)
        \/ UnlockCheck(w)
        \/ UnlockFree(w)
        \/ UnlockFreeReply(w)
        \/ SpendExisting(w)
        \/ SpendBalance(w)
        \/ SpendInsert(w)
        \/ UnlockGrant(w)

SpecCatalog == Init /\ [][NextCatalog]_vars

\* POST /unlock of the Hono router for any chapter of the catalog
HonoCatalogUnlockRequest(w) ==
    /\ CanStart(w)
    /\ \E u \in Users, c \in Catalog, k \in CallerKeys \cup {NoKey} :
          req' = [req EXCEPT ![w] = Request("unlock", u, c, k, HonoCost, None)]
    /\ pc' = [pc EXCEPT ![w] = "hono_check"]
    /\ UNCHANGED <<apiVars, resp, sdkVars, rateVars, gateVars>>
    /\ UNCHANGED readVars
    /\ UNCHANGED <<authVars, analyticsVars>>

NextHonoCatalog ==
    \E w \in Workers :
        \/ HonoCatalogUnlockRequest(w)
        \/ HonoUnlockCheck(w)
        \/ HonoUnlockFree(w)
        \/ HonoBalance(w)
        \/ HonoSpendInsert(w)
        \/ HonoGrant(w)

SpecHonoCatalog == Init /\ [][NextHonoCatalog]_vars

\* ------------------------------------------ CreditManager (analytics SDK)
\* transactionType of addCredits calls that grant credits.
GrantTypes == {"PURCHASE"}

CMSpendRequest(w) ==
    /\ CanStart(w)
    /\ \E u \in Users, amt \in Amounts, k \in CallerKeys :
          req' = [req EXCEPT ![w] = Request("spend", u, None, k, amt, "CONSUMPTION")]
    /\ pc' = [pc EXCEPT ![w] = "cm_spend_existing"]
    /\ UNCHANGED <<ledger, userChapters, cur, spendResult, resp>>
    /\ UNCHANGED <<sdkVars, rateVars>>
    /\ UNCHANGED gateVars
    /\ UNCHANGED readVars
    /\ UNCHANGED <<authVars, analyticsVars>>

\* A replay that reports the live balance instead of the stored balance_after.
CMSpendExistingLiveBalance(w) ==
    /\ pc[w] = "cm_spend_existing"
    /\ IF HasExisting(req[w].user, req[w].key)
       THEN Return(w, TRUE, None, Existing(req[w].user, req[w].key).txId,
                   getBalance(req[w].user))
       ELSE /\ pc' = [pc EXCEPT ![w] = "cm_spend_balance"]
            /\ UNCHANGED resp
    /\ UNCHANGED <<ledger, userChapters, req, cur, spendResult>>
    /\ UNCHANGED <<sdkVars, rateVars>>
    /\ UNCHANGED gateVars
    /\ UNCHANGED readVars
    /\ UNCHANGED <<authVars, analyticsVars>>

\* spend: "Check for existing transaction"
CMSpendExisting(w) ==
    /\ pc[w] = "cm_spend_existing"
    /\ IF HasExisting(req[w].user, req[w].key)
       THEN Return(w, TRUE, None, Existing(req[w].user, req[w].key).txId,
                   Existing(req[w].user, req[w].key).balanceAfter)
       ELSE /\ pc' = [pc EXCEPT ![w] = "cm_spend_balance"]
            /\ UNCHANGED resp
    /\ UNCHANGED <<ledger, userChapters, req, cur, spendResult>>
    /\ UNCHANGED <<sdkVars, rateVars>>
    /\ UNCHANGED gateVars
    /\ UNCHANGED readVars
    /\ UNCHANGED <<authVars, analyticsVars>>

\* spend: "Get current balance" and the currentBalance < amount test
CMSpendBalance(w) ==
    /\ pc[w] = "cm_spend_balance"
    /\ cur' = [cur EXCEPT ![w] = getBalance(req[w].user)]
    /\ IF getBalance(req[w].user) < req[w].amount
       THEN Return(w, FALSE, "Insufficient credits", 0, getBalance(req[w].user))
       ELSE /\ pc' = [pc EXCEPT ![w] = "cm_spend_insert"]
            /\ UNCHANGED resp
    /\ UNCHANGED <<ledger, userChapters, req, spendResult>>
    /\ UNCHANGED <<sdkVars, rateVars>>
    /\ UNCHANGED gateVars
    /\ UNCHANGED readVars
    /\ UNCHANGED <<authVars, analyticsVars>>

\* spend: INSERT ... 'CONSUMPTION' with newBalance = currentBalance - amount.
\* No UNIQUE constraint covers idempotency_key, so the insert succeeds.
CMSpendInsert(w) ==
    /\ pc[w] = "cm_spend_insert"
    /\ ledger' = Append(ledger,
            Entry(TxId(w), req[w].user, "CONSUMPTION", req[w].amount,
                  cur[w] - req[w].amount, req[w].chapter, req[w].key, None))
    /\ Return(w, TRUE, None, TxId(w), cur[w] - req[w].amount)
    /\ UNCHANGED <<userChapters, req, cur, spendResult>>
    /\ UNCHANGED <<sdkVars, rateVars>>
    /\ UNCHANGED gateVars
    /\ UNCHANGED readVars
    /\ UNCHANGED <<authVars, analyticsVars>>

CMAddRequest(w) ==
    /\ CanStart(w)
    /\ \E u \in Users, amt \in Amounts, t \in GrantTypes, k \in CallerKeys \cup {NoKey} :
          req' = [req EXCEPT ![w] = Request("add", u, None, k, amt, t)]
    /\ pc' = [pc EXCEPT ![w] = "cm_add_balance"]
    /\ UNCHANGED <<ledger, userChapters, cur, spendResult, resp>>
    /\ UNCHANGED <<sdkVars, rateVars>>
    /\ UNCHANGED gateVars
    /\ UNCHANGED readVars
    /\ UNCHANGED <<authVars, analyticsVars>>

\* const usedIdempotencyKey = idempotencyKey ?? `${transactionType}_${nanoid(8)}`
usedIdempotencyKey(w) == IF req[w].key = NoKey THEN AutoKey(w) ELSE req[w].key

\* addCredits: the balance SELECT
CMAddBalance(w) ==
    /\ pc[w] = "cm_add_balance"
    /\ cur' = [cur EXCEPT ![w] = getBalance(req[w].user)]
    /\ pc' = [pc EXCEPT ![w] = "cm_add_insert"]
    /\ UNCHANGED <<ledger, userChapters, req, spendResult, resp>>
    /\ UNCHANGED <<sdkVars, rateVars>>
    /\ UNCHANGED gateVars
    /\ UNCHANGED readVars
    /\ UNCHANGED <<authVars, analyticsVars>>

\* A grant that stores its entry under a generated key, whatever key the
\* caller passed.
CMAddInsertGeneratedKey(w) ==
    /\ pc[w] = "cm_add_insert"
    /\ ledger' = Append(ledger,
            Entry(TxId(w), req[w].user, req[w].ttype, req[w].amount,
                  cur[w] + req[w].amount, None, AutoKey(w), None))
    /\ Return(w, TRUE, None, TxId(w), cur[w] + req[w].amount)
    /\ UNCHANGED <<userChapters, req, cur, spendResult>>
    /\ UNCHANGED <<sdkVars, rateVars>>
    /\ UNCHANGED gateVars
    /\ UNCHANGED readVars
    /\ UNCHANGED <<authVars, analyticsVars>>

\* addCredits: INSERT with newBalance = currentBalance + amount
CMAddInsert(w) ==
    /\ pc[w] = "cm_add_insert"
    /\ ledger' = Append(ledger,
            Entry(TxId(w), req[w].user, req[w].ttype, req[w].amount,
                  cur[w] + req[w].amount, None, usedIdempotencyKey(w), None))
    /\ Return(w, TRUE, None, TxId(w), cur[w] + req[w].amount)
    /\ UNCHANGED <<userChapters, req, cur, spendResult>>
    /\ UNCHANGED <<sdkVars, rateVars>>
    /\ UNCHANGED gateVars
    /\ UNCHANGED readVars
    /\ UNCHANGED <<authVars, analyticsVars>>

CMBalanceRequest(w) ==
    /\ CanStart(w)
    /\ \E u \in Users :
          req' = [req EXCEPT ![w] = Request("getBalance", u, None, NoKey, 0, None)]
    /\ pc' = [pc EXCEPT ![w] = "cm_balance"]
    /\ UNCHANGED <<ledger, userChapters, cur, spendResult, resp>>
    /\ UNCHANGED <<sdkVars, rateVars>>
    /\ UNCHANGED gateVars
    /\ UNCHANGED readVars
    /\ UNCHANGED <<authVars, analyticsVars>>

\* CreditManager.getBalance
CMGetBalance(w) ==
    /\ pc[w] = "cm_balance"
    /\ Return(w, TRUE, None, 0, getBalance(req[w].user))
    /\ UNCHANGED <<ledger, userChapters, req, cur, spendResult>>
    /\ UNCHANGED <<sdkVars, rateVars>>
    /\ UNCHANGED gateVars
    /\ UNCHANGED readVars
    /\ UNCHANGED <<authVars, analyticsVars>>

NextCM ==
    \E w \in Callers :
        \/ CMSpendRequest(w)
        \/ CMSpendExisting(w)
        \/ CMSpendBalance(w)
        \/ CMSpendInsert(w)
        \/ CMAddRequest(w)
        \/ CMAddBalance(w)
        \/ CMAddInsert(w)
        \/ CMBalanceRequest(w)
        \/ CMGetBalance(w)

SpecCM == Init /\ [][NextCM]_vars

\* ------------------------------------- credit SDK (user_credits, part_004)
\* Calls are made by SdkCallers, all inside one isolate: they share the
\* module-level idempotencyStore.
SdkUsers == {"u1", "u2"}
SdkKeys == {<<"k", 1>>}
SdkChapters == {"ch2", "ch3"}
\* amount arguments of addCredits and deductCredits (0 is rejected)
SdkAmounts == {0, DefaultCost}
\* const key = idempotencyKey ?? `unlock:${userId}:${chapterId}`
DefaultUnlockKey(u, c) == <<"unlock:" \o u \o ":" \o c, 0>>
\* A field the stored result object does not have (result as DeductResult).
Undefined == 0 - 1

\* credit_transactions / chapter_transactions rows of the SDK schema
LogRow(u, t, amt, c, r) == [user |-> u, type |-> t, amount |-> amt, chapter |-> c, reason |-> r]
UnlockRow(u, c, cost) == [user |-> u, chapter |-> c, cost |-> cost]
\* { processed: true, result }
Stored(ok, msg, bal) == [success |-> ok, message |-> msg, newBalance |-> bal]

\* SELECT balance FROM user_credits WHERE user_id = ?  (result?.balance ?? 0)
sdkGetBalance(u) == IF u \in DOMAIN userCredits THEN userCredits[u] ELSE 0
\* SELECT 1 FROM chapter_unlocks WHERE user_id = ? AND chapter_id = ?
hasUnlockedChapter(u, c) == <<u, c>> \in chapterUnlocks
\* UPDATE user_credits SET balance = balance - ? WHERE user_id = ? AND balance >= ?
\* : meta.changes === 1
UpdateApplies(u, amt) == u \in DOMAIN userCredits /\ userCredits[u] >= amt
\* ... WHERE EXISTS (SELECT 1 FROM user_credits WHERE user_id = ? AND balance >= 0),
\* evaluated after the UPDATE of the same batch
ExistsNonNegative(u, amt) ==
    /\ u \in DOMAIN userCredits
    /\ (IF userCredits[u] >= amt THEN userCredits[u] - amt ELSE userCredits[u]) >= 0

\* The store after earlier, completed calls: no account, an account holding
\* the default cost, or an account that has spent what it was given.
InitSDK ==
    /\ ledger = SeedLedger("u1")
    /\ userChapters = {}
    /\ req = [w \in Slots |-> NoReq]
    /\ pc = [w \in Slots |-> "idle"]
    /\ cur = [w \in Slots |-> 0]
    /\ spendResult = [w \in Slots |-> NoResult]
    /\ resp = [w \in Slots |-> NoResp]
    /\ \/ userCredits = Empty /\ creditLog = <<>>
       \/ /\ userCredits = [u \in {"u1"} |-> DefaultCost]
          /\ creditLog = <<LogRow("u1", "credit_add", DefaultCost, None, "seed")>>
       \/ /\ userCredits = [u \in {"u1"} |-> 0]
          /\ creditLog = <<LogRow("u1", "credit_add", DefaultCost, None, "seed"),
                           LogRow("u1", "credit_deduct", DefaultCost, None, None)>>
    /\ chapterUnlocks = {}
    /\ chapterLog = <<>>
    /\ idempotencyStore = Empty
    /\ kv = Empty
    /\ now = 0
    /\ admitted = Empty
    /\ creditGates = Empty
    /\ decision = [w \in Slots |-> NoDecision]
    /\ NothingRead
    /\ SeedOnly

\* addCredits(db, userId, amount, reason): the amount check
SdkAddCall(w) ==
    /\ CanStart(w)
    /\ \E u \in SdkUsers, amt \in SdkAmounts :
          /\ req' = [req EXCEPT ![w] = Request("sdk_add", u, None, NoKey, amt, "credit_add")]
          /\ IF amt <= 0
             THEN Throw(w, "Amount must be positive")
             ELSE /\ pc' = [pc EXCEPT ![w] = "sdk_add_upsert"]
                  /\ UNCHANGED resp
    /\ UNCHANGED <<apiVars, sdkVars, rateVars>>
    /\ UNCHANGED gateVars
    /\ UNCHANGED readVars
    /\ UNCHANGED <<authVars, analyticsVars>>

\* INSERT INTO user_credits ... ON CONFLICT (user_id) DO UPDATE SET
\* balance = balance + excluded.balance
SdkAddUpsert(w) ==
    /\ pc[w] = "sdk_add_upsert"
    /\ userCredits' = Put(userCredits, req[w].user, sdkGetBalance(req[w].user) + req[w].amount)
    /\ pc' = [pc EXCEPT ![w] = "sdk_add_log"]
    /\ UNCHANGED <<apiVars, req, resp, chapterUnlocks, creditLog, chapterLog,
                   idempotencyStore, rateVars>>
    /\ UNCHANGED gateVars
    /\ UNCHANGED readVars
    /\ UNCHANGED <<authVars, analyticsVars>>

\* "Log transaction": INSERT INTO credit_transactions ... 'credit_add'
SdkAddLog(w) ==
    /\ pc[w] = "sdk_add_log"
    /\ creditLog' = Append(creditLog,
            LogRow(req[w].user, "credit_add", req[w].amount, None, "reason"))
    /\ Return(w, TRUE, None, 0, 0)
    /\ UNCHANGED <<apiVars, req, userCredits, chapterUnlocks, chapterLog,
                   idempotencyStore, rateVars>>
    /\ UNCHANGED gateVars
    /\ UNCHANGED readVars
    /\ UNCHANGED <<authVars, analyticsVars>>

\* deductCredits(db, userId, amount, idempotencyKey?): the amount check and
\* "Check idempotency key"
SdkDeductCall(w) ==
    /\ CanStart(w)
    /\ \E u \in SdkUsers, amt \in SdkAmounts, k \in SdkKeys \cup {NoKey} :
          /\ req' = [req EXCEPT ![w] = Request("sdk_deduct", u, None, k, amt, "credit_deduct")]
          /\ IF amt <= 0
             THEN Throw(w, "Amount must be positive")
             ELSE IF k # NoKey /\ k \in DOMAIN idempotencyStore
             THEN Return(w, idempotencyStore[k].success, idempotencyStore[k].message,
                         0, idempotencyStore[k].newBalance)
             ELSE /\ pc' = [pc EXCEPT ![w] = "sdk_deduct_batch"]
                  /\ UNCHANGED resp
    /\ UNCHANGED <<apiVars, sdkVars, rateVars>>
    /\ UNCHANGED gateVars
    /\ UNCHANGED readVars
    /\ UNCHANGED <<authVars, analyticsVars>>

\* db.batch([UPDATE user_credits ..., INSERT INTO credit_transactions ...])
SdkDeductBatch(w) ==
    /\ pc[w] = "sdk_deduct_batch"
    /\ LET u == req[w].user
           amt == req[w].amount
       IN /\ userCredits' = IF UpdateApplies(u, amt)
                            THEN [userCredits EXCEPT ![u] = @ - amt]
                            ELSE userCredits
          /\ creditLog' = IF ExistsNonNegative(u, amt)
                          THEN Append(creditLog, LogRow(u, "credit_deduct", amt, None, None))
                          ELSE creditLog
          /\ spendResult' = [spendResult EXCEPT ![w] =
                  [NoResult EXCEPT !.success = UpdateApplies(u, amt)]]
    /\ pc' = [pc EXCEPT ![w] = "sdk_deduct_balance"]
    /\ UNCHANGED <<ledger, userChapters, cur, req, resp, chapterUnlocks, chapterLog,
                   idempotencyStore, rateVars>>
    /\ UNCHANGED gateVars
    /\ UNCHANGED readVars
    /\ UNCHANGED <<authVars, analyticsVars>>

\* "Get updated balance", "Store idempotency result", return deductResult
SdkDeductBalance(w) ==
    /\ pc[w] = "sdk_deduct_balance"
    /\ idempotencyStore' =
          IF req[w].key # NoKey
          THEN Put(idempotencyStore, req[w].key,
                   Stored(spendResult[w].success, None, sdkGetBalance(req[w].user)))
          ELSE idempotencyStore
    /\ Return(w, spendResult[w].success, None, 0, sdkGetBalance(req[w].user))
    /\ UNCHANGED <<apiVars, req, userCredits, chapterUnlocks, creditLog, chapterLog,
                   rateVars>>
    /\ UNCHANGED gateVars
    /\ UNCHANGED readVars
    /\ UNCHANGED <<authVars, analyticsVars>>

\* unlockChapter(db, userId, chapterId, cost = 10, idempotencyKey?):
\* the key and "Check idempotency"
sdkKey(w) == IF req[w].key = NoKey
             THEN DefaultUnlockKey(req[w].user, req[w].chapter)
             ELSE req[w].key

SdkUnlockCall(w) ==
    /\ CanStart(w)
    /\ \E u \in SdkUsers, c \in SdkChapters, k \in SdkKeys \cup {NoKey} :
          LET key == IF k = NoKey THEN DefaultUnlockKey(u, c) ELSE k
          IN /\ req' = [req EXCEPT ![w] = Request("sdk_unlock", u, c, k, DefaultCost, None)]
             /\ IF key \in DOMAIN idempotencyStore
                THEN Return(w, idempotencyStore[key].success, idempotencyStore[key].message,
                            0, idempotencyStore[key].newBalance)
                ELSE /\ pc' = [pc EXCEPT ![w] = "sdk_unlock_check"]
                     /\ UNCHANGED resp
    /\ UNCHANGED <<apiVars, sdkVars, rateVars>>
    /\ UNCHANGED gateVars
    /\ UNCHANGED readVars
    /\ UNCHANGED <<authVars, analyticsVars>>

\* "Check if already unlocked"
SdkUnlockCheck(w) ==
    /\ pc[w] = "sdk_unlock_check"
    /\ IF hasUnlockedChapter(req[w].user, req[w].chapter)
       THEN /\ idempotencyStore' = Put(idempotencyStore, sdkKey(w),
                                       Stored(TRUE, "Chapter already unlocked", Undefined))
            /\ Return(w, TRUE, "Chapter already unlocked", 0, Undefined)
       ELSE /\ pc' = [pc EXCEPT ![w] = "sdk_unlock_batch"]
            /\ UNCHANGED <<resp, idempotencyStore>>
    /\ UNCHANGED <<apiVars, req, userCredits, chapterUnlocks, creditLog, chapterLog,
                   rateVars>>
    /\ UNCHANGED gateVars
    /\ UNCHANGED readVars
    /\ UNCHANGED <<authVars, analyticsVars>>

\* "Atomic transaction: deduct credits AND unlock chapter": the four statements
\* of db.batch run as one transaction; a second chapter_unlocks row for the
\* PRIMARY KEY (user_id, chapter_id) fails it, the batch is rolled back and the
\* await throws.  Then the result is stored under the key and returned.
SdkUnlockBatch(w) ==
    /\ pc[w] = "sdk_unlock_batch"
    /\ LET u == req[w].user
           c == req[w].chapter
           cost == req[w].amount
           ok == UpdateApplies(u, cost)
           msg == IF ok THEN "Chapter unlocked successfully" ELSE "Insufficient credits"
       IN IF ExistsNonNegative(u, cost) /\ <<u, c>> \in chapterUnlocks
          THEN /\ Throw(w, "UNIQUE constraint failed")
               /\ UNCHANGED <<sdkVars, spendResult>>
          ELSE /\ userCredits' = IF ok THEN [userCredits EXCEPT ![u] = @ - cost]
                                 ELSE userCredits
               /\ chapterUnlocks' = IF ExistsNonNegative(u, cost)
                                    THEN chapterUnlocks \cup {<<u, c>>}
                                    ELSE chapterUnlocks
               /\ creditLog' = IF ExistsNonNegative(u, cost)
                               THEN Append(creditLog,
                                        LogRow(u, "credit_deduct", cost, c, "chapter_unlock"))
                               ELSE creditLog
               /\ chapterLog' = IF ExistsNonNegative(u, cost)
                                THEN Append(chapterLog, UnlockRow(u, c, cost))
                                ELSE chapterLog
               /\ spendResult' = [spendResult EXCEPT ![w] = [NoResult EXCEPT !.success = ok]]
               /\ idempotencyStore' = Put(idempotencyStore, sdkKey(w), Stored(ok, msg, Undefined))
               /\ Return(w, ok, msg, 0, Undefined)
    /\ UNCHANGED <<ledger, userChapters, cur, req, rateVars>>
    /\ UNCHANGED gateVars
    /\ UNCHANGED readVars
    /\ UNCHANGED <<authVars, analyticsVars>>

\* getBalance(db, userId)
SdkBalanceCall(w) ==
    /\ CanStart(w)
    /\ \E u \in SdkUsers :
          req' = [req EXCEPT ![w] = Request("sdk_balance", u, None, NoKey, 0, None)]
    /\ pc' = [pc EXCEPT ![w] = "sdk_balance"]
    /\ UNCHANGED <<apiVars, resp, sdkVars, rateVars>>
    /\ UNCHANGED gateVars
    /\ UNCHANGED readVars
    /\ UNCHANGED <<authVars, analyticsVars>>

SdkGetBalance(w) ==
    /\ pc[w] = "sdk_balance"
    /\ Return(w, TRUE, None, 0, sdkGetBalance(req[w].user))
    /\ UNCHANGED <<apiVars, req, sdkVars, rateVars>>
    /\ UNCHANGED gateVars
    /\ UNCHANGED readVars
    /\ UNCHANGED <<authVars, analyticsVars>>

NextSDK ==
    \E w \in SdkCallers :
        \/ SdkAddCall(w)
        \/ SdkAddUpsert(w)
        \/ SdkAddLog(w)
        \/ SdkDeductCall(w)
        \/ SdkDeductBatch(w)
        \/ SdkDeductBalance(w)
        \/ SdkUnlockCall(w)
        \/ SdkUnlockCheck(w)
        \/ SdkUnlockBatch(w)
        \/ SdkBalanceCall(w)
        \/ SdkGetBalance(w)

SpecSDK == InitSDK /\ [][NextSDK]_vars

\* -------------------- the credit rate limit in front of the unlock route
\* Chapters the rate-limited requests ask for, and the users who send them.
RateChapters == {"ch1", "ch2"}
RateUsers == {"u1", "u2"}
\* checkCreditRateLimit(kv, userId): const key = `credits:${userId}`
CreditKey(userId) == "credits:" \o userId
\* checkRateLimit: const windowKey = `${key}:${Math.floor(now / windowSeconds)}`
windowKey(key, window) == <<key, window>>
\* const count = current ? parseInt(current, 10) : 0
Count(k) == IF k \in DOMAIN kv THEN kv[k] ELSE 0
Admitted(x) == IF x \in DOMAIN admitted THEN admitted[x] ELSE 0
\* The key the unlock route passes: checkCreditRateLimit(env.RATELIMIT, 'user')
RouteKey(w) == windowKey(CreditKey("user"), req[w].at)

\* A window in which no, nine or ten unlock requests have been let through.
InitRate ==
    /\ ledger = SeedLedger("u1") \o SeedLedger("u2")
    /\ userChapters = {}
    /\ req = [w \in Slots |-> NoReq]
    /\ pc = [w \in Slots |-> "idle"]
    /\ cur = [w \in Slots |-> 0]
    /\ spendResult = [w \in Slots |-> NoResult]
    /\ resp = [w \in Slots |-> NoResp]
    /\ userCredits = Empty
    /\ chapterUnlocks = {}
    /\ creditLog = <<>>
    /\ chapterLog = <<>>
    /\ idempotencyStore = Empty
    /\ now = 0
    /\ \E n \in {0, RateLimit - 1, RateLimit} :
          IF n = 0 THEN kv = Empty /\ admitted = Empty
          ELSE /\ kv = [x \in {windowKey(CreditKey("user"), 0)} |-> n]
               /\ admitted = [x \in {<<"u1", 0>>} |-> n]
    /\ creditGates = Empty
    /\ decision = [w \in Slots |-> NoDecision]
    /\ NothingRead
    /\ SeedOnly

\* POST /api/credits/unlock arrives; `now` is read by checkRateLimit.
RateUnlockRequest(w) ==
    /\ CanStart(w)
    /\ \E u \in RateUsers, c \in RateChapters :
          req' = [req EXCEPT ![w] = Request("unlock", u, c, NoKey, unlock_cost(c), None)]
    /\ pc' = [pc EXCEPT ![w] = "rate_get"]
    /\ UNCHANGED <<apiVars, resp, sdkVars, rateVars>>
    /\ UNCHANGED gateVars
    /\ UNCHANGED readVars
    /\ UNCHANGED <<authVars, analyticsVars>>

\* const current = await kv.get(windowKey); if (count >= limit) -> 429
RateGet(w) ==
    /\ pc[w] = "rate_get"
    /\ cur' = [cur EXCEPT ![w] = Count(RouteKey(w))]
    /\ IF Count(RouteKey(w)) >= RateLimit
       THEN Reply(w, 429, "Rate limit exceeded", 0, 0, 0)
       ELSE /\ pc' = [pc EXCEPT ![w] = "rate_put"]
            /\ UNCHANGED resp
    /\ UNCHANGED <<ledger, userChapters, spendResult, req, sdkVars, rateVars>>
    /\ UNCHANGED gateVars
    /\ UNCHANGED readVars
    /\ UNCHANGED <<authVars, analyticsVars>>

\* await kv.put(windowKey, String(count + 1), ...); allowed: true
RatePut(w) ==
    /\ pc[w] = "rate_put"
    /\ kv' = Put(kv, RouteKey(w), cur[w] + 1)
    /\ admitted' = Put(admitted, <<req[w].user, req[w].at>>,
                       Admitted(<<req[w].user, req[w].at>>) + 1)
    /\ pc' = [pc EXCEPT ![w] = "unlock_check"]
    /\ UNCHANGED <<apiVars, req, resp, sdkVars, now>>
    /\ UNCHANGED gateVars
    /\ UNCHANGED readVars
    /\ UNCHANGED <<authVars, analyticsVars>>

\* The clock moves into the next 60-second window.
NextWindow ==
    /\ now < MaxWindow
    /\ now' = now + 1
    /\ UNCHANGED <<apiVars, req, pc, resp, sdkVars, kv, admitted>>
    /\ UNCHANGED gateVars
    /\ UNCHANGED readVars
    /\ UNCHANGED <<authVars, analyticsVars>>

NextRate ==
    \/ \E w \in RateClients :
        \/ RateUnlockRequest(w)
        \/ RateGet(w)
        \/ RatePut(w)
        \/ UnlockCheck(w)
        \/ UnlockFree(w)
        \/ UnlockFreeReply(w)
        \/ SpendExisting(w)
        \/ SpendBalance(w)
        \/ SpendInsert(w)
        \/ UnlockGrant(w)
    \/ NextWindow

SpecRate == InitRate /\ [][NextRate]_vars

\* ------------------------------------ CreditGateManager (creditGates.ts)
GateUsers == {"u1", "u2"}
\* Chapter ids passed to evaluateGate: the seeded 'chapter_1', and the free
\* first and the paid second chapter of the demo story.
GateChapters == {"chapter_1", "ch_t1_01", "ch_t1_02"}
\* chapters.is_free of the catalog / the first chapter of a story
DesignatedFree(c) == c \in {"chapter_1", "ch_t1_01"}
\* chapterId.endsWith('_1') || chapterId === 'chapter_1' || chapterId === '1'
isFirstChapter(c) == c \in {"chapter_1"}
\* credit_gates rows (messages_free, messages_per_credit, chapter_credits,
\* gate_type) that the paid chapter may be configured with
GateTypes == {"none", "static", "dynamic", "progressive"}
PolicyFree == {2}
PolicyPerCredit == {2}
PolicyChapterCredits == {3}
GateRows == [messages_free : PolicyFree, messages_per_credit : PolicyPerCredit,
             chapter_credits : PolicyChapterCredits, gate_type : GateTypes]
\* arguments messageIndex, totalMessages and engagementSeconds
MessageIndexes == 0..MaxIndex
totalMessages == MaxIndex + 1
EngagementSeconds == {0, 299, 300, 599, 600, 1799, 1800, 3600}

\* The numeric argument of the call a gate caller makes.
messageIndex(w) == req[w].amount
engagementSeconds(w) == req[w].amount

GateDecision(show, credits, remaining, why) ==
    [NoDecision EXCEPT !.shouldShow = show, !.creditsRequired = credits,
                       !.messagesRemaining = remaining, !.reason = why]
Decide(w, d) ==
    /\ decision' = [decision EXCEPT ![w] = d]
    /\ pc' = [pc EXCEPT ![w] = "done"]

\* Math.ceil(a / b) for a >= 0 and b > 0
Ceil(a, b) == (a + b - 1) \div b

\* A threshold that falls back to 0 when the chapter has no policy row.
messagesFreeNoDefault(c) == IF c \in DOMAIN creditGates THEN creditGates[c].messages_free ELSE 0

\* const messagesFree = config?.messages_free ?? 3
messagesFree(c) == IF c \in DOMAIN creditGates THEN creditGates[c].messages_free ELSE DefaultFree
\* const creditsPerMsg = config?.messages_per_credit ?? 1
creditsPerMsg(c) == IF c \in DOMAIN creditGates THEN creditGates[c].messages_per_credit ELSE 1
\* const creditsRequired = Math.ceil(messagesBeyondFree / creditsPerMsg)
creditsRequired(c, idx) == Ceil(idx - messagesFree(c), creditsPerMsg(c))

\* The two users hold 50 and 0 credits; the paid chapter has no policy row or
\* one of GateRows.
InitGate ==
    /\ ledger = SeedLedger("u1") \o DeductedLedger("u2", WelcomeBonus)
    /\ userChapters = {}
    /\ req = [w \in Slots |-> NoReq]
    /\ pc = [w \in Slots |-> "idle"]
    /\ cur = [w \in Slots |-> 0]
    /\ spendResult = [w \in Slots |-> NoResult]
    /\ resp = [w \in Slots |-> NoResp]
    /\ userCredits = Empty
    /\ chapterUnlocks = {}
    /\ creditLog = <<>>
    /\ chapterLog = <<>>
    /\ idempotencyStore = Empty
    /\ kv = Empty
    /\ now = 0
    /\ admitted = Empty
    /\ \/ creditGates = Empty
       \/ \E row \in GateRows : creditGates = [c \in {"ch_t1_02"} |-> row]
    /\ decision = [w \in Slots |-> NoDecision]
    /\ NothingRead
    /\ SeedOnly

\* evaluateGate(userId, storyId, chapterId, messageIndex, totalMessages):
\* "Chapter 1 is always free"
GateCall(w) ==
    /\ CanStart(w)
    /\ \E u \in GateUsers, c \in GateChapters, idx \in MessageIndexes :
          /\ req' = [req EXCEPT ![w] = Request("gate", u, c, NoKey, idx, None)]
          /\ IF isFirstChapter(c)
             THEN Decide(w, GateDecision(FALSE, 0, totalMessages - idx, "first_chapter_free"))
             ELSE /\ pc' = [pc EXCEPT ![w] = "gate_config"]
                  /\ UNCHANGED decision
    /\ UNCHANGED <<apiVars, resp, sdkVars, rateVars, creditGates, readVars,
                   authVars, analyticsVars>>

\* "Get gate config" and the messageIndex < messagesFree test
GateConfig(w) ==
    /\ pc[w] = "gate_config"
    /\ IF messageIndex(w) < messagesFree(req[w].chapter)
       THEN Decide(w, GateDecision(FALSE, 0, messagesFree(req[w].chapter) - messageIndex(w),
                                   "free_messages_remaining"))
       ELSE /\ pc' = [pc EXCEPT ![w] = "gate_balance"]
            /\ UNCHANGED decision
    /\ UNCHANGED <<apiVars, req, resp, sdkVars, rateVars, creditGates, readVars,
                   authVars, analyticsVars>>

\* "Calculate credits needed", currentBalance = await creditManager.getBalance
GateBalance(w) ==
    /\ pc[w] = "gate_balance"
    /\ LET need == creditsRequired(req[w].chapter, messageIndex(w))
           short == getBalance(req[w].user) < need
       IN Decide(w, GateDecision(short, need, 0,
                                 IF short THEN "insufficient_credits" ELSE "can_continue"))
    /\ UNCHANGED <<apiVars, req, resp, sdkVars, rateVars, creditGates, readVars,
                   authVars, analyticsVars>>

\* const tiers = [...]
tiers == << [minSeconds |-> 300, credits |-> 1, reason |-> "waited_5_min"],
            [minSeconds |-> 600, credits |-> 2, reason |-> "waited_10_min"],
            [minSeconds |-> 1800, credits |-> 5, reason |-> "waited_30_min"] >>
Bonus(ok, credits, why) ==
    [NoDecision EXCEPT !.eligible = ok, !.bonusCredits = credits, !.reason = why]

RECURSIVE ScanReversed(_, _)
\* for (const tier of tiers.slice().reverse()) if (engagementSeconds >= tier.minSeconds)
\* return ...: from tier i downwards
ScanReversed(i, seconds) ==
    IF i = 0 THEN Bonus(FALSE, 0, "no_bonus_yet")
    ELSE IF seconds >= tiers[i].minSeconds
         THEN Bonus(TRUE, tiers[i].credits, tiers[i].reason)
         ELSE ScanReversed(i - 1, seconds)

\* The tiers scanned in declaration order: the first threshold reached wins.
checkBonusAscending(seconds) ==
    IF seconds >= tiers[1].minSeconds
    THEN Bonus(TRUE, tiers[1].credits, tiers[1].reason)
    ELSE Bonus(FALSE, 0, "no_bonus_yet")
checkBonusEligibility(seconds) == ScanReversed(Len(tiers), seconds)

\* checkBonusEligibility(userId, engagementSeconds)
BonusCall(w) ==
    /\ CanStart(w)
    /\ \E u \in GateUsers, s \in EngagementSeconds :
          /\ req' = [req EXCEPT ![w] = Request("bonus", u, None, NoKey, s, None)]
          /\ Decide(w, checkBonusEligibility(s))
    /\ UNCHANGED <<apiVars, resp, sdkVars, rateVars, creditGates, readVars,
                   authVars, analyticsVars>>

NextGate ==
    \E w \in GateCallers :
        \/ GateCall(w)
        \/ GateConfig(w)
        \/ GateBalance(w)
        \/ BonusCall(w)

SpecGate == InitGate /\ [][NextGate]_vars

\* ------------------------------- account creation (register, Google login)
\* Addresses that sign up with a password, and Google accounts that log in.
RegEmails == {"user@demo.com", "new@demo.com", "other@demo.com"}
GoogleIds == {"g1"}
GoogleEmail(g) == "new@demo.com"
\* const userId = generateId(): an id no other call has drawn
NewUserId(w) == "user_" \o ToString(w)
\* `tx_${Date.now()}`: the transaction_id of the welcome entry
ClockTx(t) == 100 + t
\* transaction_id TEXT UNIQUE NOT NULL
TxTaken(tx) == \E i \in 1..Len(ledger) : ledger[i].txId = tx
\* email TEXT UNIQUE NOT NULL
EmailTaken(e) == \E a \in accounts : a.email = e

AuthRequest(o, e, g) ==
    [op |-> o, email |-> e, googleId |-> g, user |-> None, after |-> Done, at |-> clock]

\* The seeded database; nobody else has signed up.
InitAuth ==
    /\ Init
    /\ ledger = SeedLedger("u1")

\* POST /api/auth/register arrives; body validation.
RegisterRequest(w) ==
    /\ CanStart(w)
    /\ \E e \in RegEmails, valid \in BOOLEAN :
          /\ req' = [req EXCEPT ![w] = AuthRequest("register", e, None)]
          /\ IF ~valid
             THEN Reply(w, 400, "Valid email and password (6+ chars) required", 0, 0, 0)
             ELSE /\ pc' = [pc EXCEPT ![w] = "register_check"]
                  /\ UNCHANGED resp
    /\ UNCHANGED <<apiVars, sdkVars, rateVars, gateVars, readVars>>
    /\ UNCHANGED <<authVars, analyticsVars>>

\* SELECT id FROM users WHERE email = ?  -> 409 when a row exists
RegisterCheck(w) ==
    /\ pc[w] = "register_check"
    /\ IF EmailTaken(req[w].email)
       THEN Reply(w, 409, "Email already registered", 0, 0, 0)
       ELSE /\ pc' = [pc EXCEPT ![w] = "register_user"]
            /\ UNCHANGED resp
    /\ UNCHANGED <<apiVars, req, sdkVars, rateVars, gateVars, readVars>>
    /\ UNCHANGED <<authVars, analyticsVars>>

\* INSERT INTO users (id, email, ..., 'email', ...); a second row with the
\* address is rejected by the UNIQUE column and the catch answers 500.
RegisterUser(w) ==
    /\ pc[w] = "register_user"
    /\ IF EmailTaken(req[w].email)
       THEN /\ Reply(w, 500, StoreFailure, 0, 0, 0)
            /\ UNCHANGED <<req, accounts>>
       ELSE /\ accounts' = accounts \cup
                   {[id |-> NewUserId(w), email |-> req[w].email,
                     provider |-> "email", providerId |-> None]}
            /\ req' = [req EXCEPT ![w].user = NewUserId(w)]
            /\ pc' = [pc EXCEPT ![w] = "register_bonus"]
            /\ UNCHANGED resp
    /\ UNCHANGED <<apiVars, sdkVars, rateVars, gateVars, readVars>>
    /\ UNCHANGED <<clock, analyticsVars>>

\* INSERT INTO credit_transactions (..., 'BONUS', 50, 50, `welcome_${userId}`)
\* under transaction_id `tx_${Date.now()}`; then the session and the reply.
RegisterBonus(w) ==
    /\ pc[w] = "register_bonus"
    /\ IF TxTaken(ClockTx(clock))
       THEN /\ Reply(w, 500, StoreFailure, 0, 0, 0)
            /\ UNCHANGED ledger
       ELSE /\ ledger' = Append(ledger,
                   Entry(ClockTx(clock), req[w].user, "BONUS", WelcomeBonus,
                         WelcomeBonus, None, WelcomeKey(req[w].user), None))
            /\ Reply(w, 200, None, ClockTx(clock), WelcomeBonus, 0)
    /\ UNCHANGED <<userChapters, cur, spendResult, req, sdkVars, rateVars,
                   gateVars, readVars>>
    /\ UNCHANGED <<authVars, analyticsVars>>

\* POST /api/auth/google; exchangeGoogleCode returns the Google user, or null
\* and the handler falls back to `user_${Date.now()}@storychat.dev`.
GoogleRequest(w) ==
    /\ CanStart(w)
    /\ \E code \in BOOLEAN, g \in GoogleIds \cup {None} :
          /\ req' = [req EXCEPT ![w] =
                IF g = None
                THEN AuthRequest("google", "user_" \o ToString(clock) \o "@storychat.dev",
                                 "google_" \o ToString(clock))
                ELSE AuthRequest("google", GoogleEmail(g), g)]
          /\ IF ~code
             THEN Reply(w, 400, "OAuth code required", 0, 0, 0)
             ELSE /\ pc' = [pc EXCEPT ![w] = "google_check"]
                  /\ UNCHANGED resp
    /\ UNCHANGED <<apiVars, sdkVars, rateVars, gateVars, readVars>>
    /\ UNCHANGED <<authVars, analyticsVars>>

\* SELECT ... FROM users WHERE auth_provider_id = ? AND auth_provider = "google";
\* a known user goes on to the session and the reply.
GoogleCheck(w) ==
    /\ pc[w] = "google_check"
    /\ IF \E a \in accounts : a.provider = "google" /\ a.providerId = req[w].googleId
       THEN Reply(w, 200, None, 0, 0, 0)
       ELSE /\ pc' = [pc EXCEPT ![w] = "google_user"]
            /\ UNCHANGED resp
    /\ UNCHANGED <<apiVars, req, sdkVars, rateVars, gateVars, readVars>>
    /\ UNCHANGED <<authVars, analyticsVars>>

\* INSERT INTO users (id, email, ..., 'google', googleId, ...)
GoogleUser(w) ==
    /\ pc[w] = "google_user"
    /\ IF EmailTaken(req[w].email)
       THEN /\ Reply(w, 500, StoreFailure, 0, 0, 0)
            /\ UNCHANGED <<req, accounts>>
       ELSE /\ accounts' = accounts \cup
                   {[id |-> NewUserId(w), email |-> req[w].email,
                     provider |-> "google", providerId |-> req[w].googleId]}
            /\ req' = [req EXCEPT ![w].user = NewUserId(w)]
            /\ pc' = [pc EXCEPT ![w] = "google_bonus"]
            /\ UNCHANGED resp
    /\ UNCHANGED <<apiVars, sdkVars, rateVars, gateVars, readVars>>
    /\ UNCHANGED <<clock, analyticsVars>>

\* INSERT INTO credit_transactions (..., 'BONUS', 50, 50, `welcome_${userId}`)
\* under transaction_id `tx_${Date.now()}`; then the session and the reply.
GoogleBonus(w) ==
    /\ pc[w] = "google_bonus"
    /\ IF TxTaken(ClockTx(clock))
       THEN /\ Reply(w, 500, StoreFailure, 0, 0, 0)
            /\ UNCHANGED ledger
       ELSE /\ ledger' = Append(ledger,
                   Entry(ClockTx(clock), req[w].user, "BONUS", WelcomeBonus,
                         WelcomeBonus, None, WelcomeKey(req[w].user), None))
            /\ Reply(w, 200, None, ClockTx(clock), WelcomeBonus, 0)
    /\ UNCHANGED <<userChapters, cur, spendResult, req, sdkVars, rateVars,
                   gateVars, readVars>>
    /\ UNCHANGED <<authVars, analyticsVars>>

\* Date.now() moves to the next millisecond.
ClockTick ==
    /\ clock < MaxClock
    /\ clock' = clock + 1
    /\ UNCHANGED <<apiVars, req, pc, resp, sdkVars, rateVars, gateVars, readVars>>
    /\ UNCHANGED <<accounts, analyticsVars>>

NextAuth ==
    \/ \E w \in AuthCallers :
        \/ RegisterRequest(w)
        \/ RegisterCheck(w)
        \/ RegisterUser(w)
        \/ RegisterBonus(w)
        \/ GoogleRequest(w)
        \/ GoogleCheck(w)
        \/ GoogleUser(w)
        \/ GoogleBonus(w)
    \/ ClockTick

SpecAuth == InitAuth /\ [][NextAuth]_vars

\* ------------------------------------ event tracking SDK (part_011 events)
Events == 1..NumEvents
\* The payload of the next trackEvent call.
NextEvent == Cardinality(accepted \cup rejected) + 1
Min(a, b) == IF a < b THEN a ELSE b
\* const batch = eventQueue.splice(0, config.batchSize): what is taken, and
\* what stays in the queue.
Spliced(q) == SubSeq(q, 1, Min(BatchSize, Len(q)))
Rest(q) == SubSeq(q, Min(BatchSize, Len(q)) + 1, Len(q))
\* A flushEvents call that awaits config.d1Database.batch(...)
Flush(batch, caller) == [batch |-> batch, by |-> caller]
Range(q) == {q[i] : i \in DOMAIN q}

\* The module as loaded; the host has the seeded database.
InitTracking ==
    /\ Init
    /\ ledger = SeedLedger("u1")

\* initAnalytics(userConfig): config = userConfig; flushTimer = setInterval(...)
InitAnalytics ==
    /\ ~configured
    /\ configured' = TRUE
    /\ flushTimer' = TRUE
    /\ UNCHANGED <<eventQueue, inFlight, storedEvents, accepted, rejected, shutdown>>
    /\ UNCHANGED <<apiVars, req, pc, resp, sdkVars, rateVars, gateVars, readVars, authVars>>

\* trackEvent(payload): throws without config; else pushes the payload and,
\* when the queue has reached the batch size, calls flushEvents, which takes
\* its batch before the first await.
TrackEvent ==
    /\ NextEvent \in Events
    /\ IF ~configured
       THEN /\ rejected' = rejected \cup {NextEvent}
            /\ UNCHANGED <<eventQueue, inFlight, accepted>>
       ELSE /\ accepted' = accepted \cup {NextEvent}
            /\ IF Len(eventQueue) + 1 >= BatchSize
               THEN /\ inFlight' = inFlight \cup
                           {Flush(Spliced(Append(eventQueue, NextEvent)), "track")}
                    /\ eventQueue' = Rest(Append(eventQueue, NextEvent))
               ELSE /\ eventQueue' = Append(eventQueue, NextEvent)
                    /\ UNCHANGED inFlight
            /\ UNCHANGED rejected
    /\ UNCHANGED <<configured, flushTimer, storedEvents, shutdown>>
    /\ UNCHANGED <<apiVars, req, pc, resp, sdkVars, rateVars, gateVars, readVars, authVars>>

\* The interval fires flushEvents: `if (!config || eventQueue.length === 0)
\* return`, then the splice.
TimerFlush ==
    /\ flushTimer /\ configured
    /\ eventQueue # <<>>
    /\ inFlight' = inFlight \cup {Flush(Spliced(eventQueue), "timer")}
    /\ eventQueue' = Rest(eventQueue)
    /\ UNCHANGED <<configured, flushTimer, storedEvents, accepted, rejected, shutdown>>
    /\ UNCHANGED <<apiVars, req, pc, resp, sdkVars, rateVars, gateVars, readVars, authVars>>

\* await config.d1Database.batch(batchPromises) resolves: the rows are written.
FlushSucceeds(f) ==
    /\ f \in inFlight
    /\ storedEvents' = storedEvents \o f.batch
    /\ inFlight' = inFlight \ {f}
    /\ shutdown' = IF f.by = "shutdown" THEN [shutdown EXCEPT !.state = "done"]
                   ELSE shutdown
    /\ UNCHANGED <<configured, eventQueue, flushTimer, accepted, rejected>>
    /\ UNCHANGED <<apiVars, req, pc, resp, sdkVars, rateVars, gateVars, readVars, authVars>>

\* A flush whose batch is lost when the store rejects it.
FlushFailsDropped(f) ==
    /\ f \in inFlight
    /\ inFlight' = inFlight \ {f}
    /\ shutdown' = IF f.by = "shutdown" THEN [shutdown EXCEPT !.state = "failed"]
                   ELSE shutdown
    /\ UNCHANGED <<configured, eventQueue, flushTimer, storedEvents, accepted, rejected>>
    /\ UNCHANGED <<apiVars, req, pc, resp, sdkVars, rateVars, gateVars, readVars, authVars>>

\* The batch is rejected (D1 batches are transactions: no row is written);
\* catch: eventQueue.unshift(...batch)
FlushFails(f) ==
    /\ f \in inFlight
    /\ eventQueue' = f.batch \o eventQueue
    /\ inFlight' = inFlight \ {f}
    /\ shutdown' = IF f.by = "shutdown" THEN [shutdown EXCEPT !.state = "failed"]
                   ELSE shutdown
    /\ UNCHANGED <<configured, flushTimer, storedEvents, accepted, rejected>>
    /\ UNCHANGED <<apiVars, req, pc, resp, sdkVars, rateVars, gateVars, readVars, authVars>>

\* shutdownAnalytics(): clearInterval, flushTimer = null, and one flushEvents
\* call when the queue is not empty.
ShutdownAnalytics ==
    /\ shutdown.state = "idle"
    /\ flushTimer' = FALSE
    /\ IF eventQueue # <<>> /\ configured
       THEN /\ inFlight' = inFlight \cup {Flush(Spliced(eventQueue), "shutdown")}
            /\ eventQueue' = Rest(eventQueue)
            /\ shutdown' = [state |-> "flushing", queued |-> Range(eventQueue)]
       ELSE /\ shutdown' = [state |-> "done", queued |-> Range(eventQueue)]
            /\ UNCHANGED <<eventQueue, inFlight>>
    /\ UNCHANGED <<configured, storedEvents, accepted, rejected>>
    /\ UNCHANGED <<apiVars, req, pc, resp, sdkVars, rateVars, gateVars, readVars, authVars>>

NextTracking ==
    \/ InitAnalytics
    \/ TrackEvent
    \/ TimerFlush
    \/ \E f \in inFlight : FlushSucceeds(f)
    \/ \E f \in inFlight : FlushFails(f)
    \/ ShutdownAnalytics

SpecTracking == InitTracking /\ [][NextTracking]_vars

\* ================================================================ claims
\* The entries of user u, and those a given request committed.
EntriesOf(u) == {i \in 1..Len(ledger) : ledger[i].user = u}
Committed(w) == {i \in 1..Len(ledger) : ledger[i].txId = TxId(w)}
KeyEntries(u, k) == {i \in 1..Len(ledger) : ledger[i].user = u /\ ledger[i].key = k}
\* The balance the seeded history left the user with.
SeedBalance == ledger[Len(SelectSeq(ledger, LAMBDA e : e.txId <= 0))].balanceAfter
\* v had returned before w was issued; neither had.
Before(v, w) == v \in req[w].after
Concurrent(v, w) == v # w /\ ~Before(v, w) /\ ~Before(w, v)
Returned(w) == pc[w] = "done"

\* C1: no sequence or interleaving of paid unlocks (spend) and admin deducts
\* ever makes a user's balance negative.
C1_NoNegativeBalance == \A u \in Users : getBalance(u) >= 0

\* A worker whose unlock ran spendCredits for a key no seeded entry carries.
SeedKeys == {ledger[i].key : i \in {j \in 1..Len(ledger) : ledger[j].txId <= 0}}
RanSpend(w) ==
    /\ Returned(w) /\ req[w].op = "unlock"
    /\ spendResult[w] # NoResult
    /\ UnlockKey(w) \notin SeedKeys
\* Nothing but w1 and w2 has written to the ledger since the seed.
OnlyWriters(w1, w2) == \A i \in 1..Len(ledger) : ledger[i].txId \in {0 - 1, 0, TxId(w1), TxId(w2)}

\* C2: with balance 10, two concurrent spends of 10 under different keys: exactly
\* one commits a CONSUMPTION entry, the other returns insufficient credits, and
\* the final balance is 0.
C2_ConcurrentSpendsSerialized ==
    \A w1, w2 \in Workers :
        ( /\ RanSpend(w1) /\ RanSpend(w2) /\ Concurrent(w1, w2)
          /\ req[w1].user = req[w2].user
          /\ UnlockKey(w1) # UnlockKey(w2)
          /\ req[w1].amount = ChapterCost /\ req[w2].amount = ChapterCost
          /\ SeedBalance = ChapterCost
          /\ OnlyWriters(w1, w2) )
        => /\ Cardinality(Committed(w1) \cup Committed(w2)) = 1
           /\ \E w \in {w1, w2} : spendResult[w].error = "Insufficient credits"
           /\ getBalance(req[w1].user) = 0

RECURSIVE AmountOf(_)
\* The total credits_amount of a set of ledger rows.
AmountOf(S) ==
    IF S = {} THEN 0
    ELSE LET i == CHOOSE j \in S : TRUE IN ledger[i].amount + AmountOf(S \ {i})
OfTypes(u, T) == {i \in EntriesOf(u) : ledger[i].ttype \in T}

\* C3: for every user, in every reachable state, the balance getBalance returns
\* is the sum over the user's PURCHASE, REFUND, ADMIN_ADD, BONUS and PROMO
\* entries minus the sum over their CONSUMPTION and ADMIN_REMOVE entries.
C3_BalanceIsFold ==
    \A u \in Users :
        getBalance(u) =
            AmountOf(OfTypes(u, {"PURCHASE", "REFUND", "ADMIN_ADD", "BONUS", "PROMO"}))
            - AmountOf(OfTypes(u, {"CONSUMPTION", "ADMIN_REMOVE"}))

\* C3 witness: a balance request has returned the fold of a history that holds
\* a bonus, an admin deduction and a consumption.
C3_Witness ==
    \E w \in Workers :
        /\ Returned(w) /\ req[w].op = "balance"
        /\ resp[w].newBalance = getBalance(req[w].user)
        /\ OfTypes(req[w].user, {"CONSUMPTION"}) # {}
        /\ OfTypes(req[w].user, {"ADMIN_REMOVE"}) # {}
        /\ OfTypes(req[w].user, {"BONUS"}) # {}

\* C4: the ledger never holds two entries for one (userId, idempotencyKey).
C4_OneEntryPerKey ==
    \A u \in Users : \A k \in CallerKeys : Cardinality(KeyEntries(u, k)) <= 1

\* Same outcome: success, transaction id and balanceAfter.
SameOutcome(v, w) ==
    /\ resp[v].success = resp[w].success
    /\ resp[v].txId = resp[w].txId
    /\ resp[v].newBalance = resp[w].newBalance
SameCall(v, w, o) ==
    /\ v # w /\ Returned(v) /\ Returned(w)
    /\ req[v].op = o /\ req[w].op = o
    /\ req[v].user = req[w].user /\ req[v].key = req[w].key
    /\ req[v].key # NoKey
ConsumptionsFor(u, k) == {i \in KeyEntries(u, k) : ledger[i].ttype = "CONSUMPTION"}
\* Every other request that carries w's (user, key) ran wholly before or
\* wholly after w.
InSequence(w) ==
    \A v \in Slots \ {w} :
        (req[v].user = req[w].user /\ req[v].key = req[w].key)
            => Returned(v) /\ (Before(v, w) \/ Before(w, v))

\* C5 as stated: two spend calls in sequence with the same (userId, key) commit
\* exactly one CONSUMPTION entry and the second returns the first's outcome.
C5_SpendTwiceOneEntry ==
    \A w1, w2 \in Callers :
        (SameCall(w1, w2, "spend") /\ Before(w1, w2))
        => /\ Cardinality(ConsumptionsFor(req[w1].user, req[w1].key)) = 1
           /\ SameOutcome(w1, w2)

\* C5 amended: when the first of the two calls commits its CONSUMPTION entry and
\* the calls that carry the key run in sequence, the second call commits nothing
\* and returns the first's success, transaction id and balanceAfter.
C5_ReplayReturnsCommitted ==
    \A w1, w2 \in Callers :
        (SameCall(w1, w2, "spend") /\ Before(w1, w2)
            /\ Committed(w1) # {} /\ InSequence(w1))
        => /\ Committed(w2) = {}
           /\ Cardinality(ConsumptionsFor(req[w1].user, req[w1].key)) = 1
           /\ resp[w1].success /\ SameOutcome(w1, w2)

\* C5 witness: a replay returned the committed outcome although a later
\* transaction had changed the balance in between.
C5_Witness ==
    \E w1, w2 \in Callers :
        /\ SameCall(w1, w2, "spend") /\ Before(w1, w2)
        /\ Committed(w1) # {} /\ InSequence(w1)
        /\ resp[w2].txId = TxId(w1)
        /\ resp[w2].newBalance # getBalance(req[w2].user)
        /\ \E v \in Callers : Committed(v) # {} /\ Before(w1, v) /\ Before(v, w2)

\* C6: two concurrent spend calls with the same (userId, key): exactly one entry
\* is committed and both return the same transaction id and balanceAfter.
C6_ConcurrentRetriesCollapse ==
    \A w1, w2 \in Callers :
        (SameCall(w1, w2, "spend") /\ Concurrent(w1, w2)
            /\ (resp[w1].success \/ resp[w2].success))
        => /\ Cardinality(KeyEntries(req[w1].user, req[w1].key)) = 1
           /\ SameOutcome(w1, w2)

\* C7: two addCredits calls in sequence with the same (userId, key) commit one
\* entry, raise the balance once, and return identical outcomes.
C7_GrantTwiceOneEntry ==
    \A w1, w2 \in Callers :
        (SameCall(w1, w2, "add") /\ Before(w1, w2))
        => /\ Cardinality(Committed(w1) \cup Committed(w2)) = 1
           /\ SameOutcome(w1, w2)

\* The user's CONSUMPTION entries for a chapter; the entitlement row.
DebitsFor(u, c) ==
    {i \in EntriesOf(u) : ledger[i].ttype = "CONSUMPTION" /\ ledger[i].chapter = c}
Entitled(u, c) == <<u, c>> \in userChapters
PaidUnlock(w) == Returned(w) /\ req[w].op = "unlock" /\ ~is_free(req[w].chapter)

\* C8: after a paid unlock returned success, the entry spendCredits reported
\* under the request's key and the entitlement both exist; after it returned a
\* failure (402 or 500), the request has left no debit entry behind.
C8_UnlockAllOrNothing ==
    \A w \in Workers :
        PaidUnlock(w) =>
            /\ (resp[w].success /\ spendResult[w].success)
                  => /\ Entitled(req[w].user, req[w].chapter)
                     /\ HasExisting(req[w].user, UnlockKey(w))
            /\ ~resp[w].success => Committed(w) = {}

\* C9: every entitlement for a non-free chapter is backed by a CONSUMPTION entry
\* of that user for that chapter.
C9_EntitlementBackedByDebit ==
    \A u \in Users : \A c \in Chapters :
        (Entitled(u, c) /\ ~is_free(c)) => DebitsFor(u, c) # {}

\* C10: no chapter-messages request is answered "Chapter locked" while the
\* ledger already holds the user's debit for that chapter.
C10_NoDebitWithoutEntitlementSeen ==
    [][\A w \in Workers :
          (pc[w] = "messages_check" /\ pc'[w] = "done" /\ resp'[w].status = 403)
              => DebitsFor(req[w].user, req[w].chapter) = {}]_vars

\* A returned unlock request for a chapter marked free.
FreeUnlock(w) == Returned(w) /\ req[w].op = "unlock" /\ is_free(req[w].chapter)

\* C11: an unlock of a free chapter always succeeds with creditsCharged = 0,
\* leaves the entitlement in place and appends no ledger entry, whatever the
\* balance (50, 10 or 0).
C11_FreeUnlockAlwaysSucceeds ==
    \A w \in Workers :
        FreeUnlock(w) =>
            /\ resp[w].success /\ resp[w].charged = 0
            /\ Entitled(req[w].user, req[w].chapter)
            /\ Committed(w) = {}

\* An unlockChapter call whose batch debited the user and inserted the
\* chapter_unlocks row.
UnlockedBy(v) == Returned(v) /\ req[v].op = "sdk_unlock" /\ spendResult[v].success
SdkUnlock(w) == Returned(w) /\ req[w].op = "sdk_unlock"

\* C12: an unlockChapter call made when the chapter is already unlocked for the
\* user returns success and changes neither balance nor logs, whatever key the
\* caller passes.
C12_AlreadyUnlockedIsNoOp ==
    \A v, w \in SdkCallers :
        ( /\ UnlockedBy(v) /\ SdkUnlock(w) /\ Before(v, w)
          /\ req[v].user = req[w].user /\ req[v].chapter = req[w].chapter )
        => /\ resp[w].success /\ ~resp[w].thrown
           /\ spendResult[w] = NoResult

\* spendCredits of request w reads a balance below the amount.
ReadsShort(w) ==
    /\ pc[w] = "spend_balance" /\ pc'[w] # "spend_balance"
    /\ getBalance(req[w].user) < req[w].amount
\* An unlock that spendCredits refused for insufficient credits.
Refused(w) ==
    /\ Returned(w) /\ req[w].op = "unlock"
    /\ spendResult[w].error = "Insufficient credits"

C14_InvalidAmountIsAValue ==
    \A w \in SdkCallers :
        ( /\ Returned(w) /\ req[w].op \in {"sdk_add", "sdk_deduct"}
          /\ req[w].amount <= 0 )
        => /\ ~resp[w].thrown
           /\ ~resp[w].success /\ resp[w].error = "Amount must be positive"
           /\ spendResult[w] = NoResult

\* A deductCredits call whose UPDATE took the amount from the balance.
Deducted(w) == req[w].op = "sdk_deduct" /\ spendResult[w].success
SameDeduct(v, w) ==
    /\ v # w /\ Returned(v) /\ Returned(w)
    /\ req[v].op = "sdk_deduct" /\ req[w].op = "sdk_deduct"
    /\ req[v].user = req[w].user /\ req[v].amount = req[w].amount
    /\ req[v].amount > 0
    /\ req[v].key = req[w].key /\ req[v].key # NoKey

\* C15: deductCredits calls that carry the same idempotency key, sequential or
\* concurrent, take the amount from the balance at most once and all return the
\* same result.
C15_DeductOncePerKey ==
    \A w1, w2 \in SdkCallers :
        SameDeduct(w1, w2)
        => /\ ~(Deducted(w1) /\ Deducted(w2))
           /\ SameOutcome(w1, w2)

\* The batch of unlockChapter call w runs to its end in this step.
BatchReturns(w) == pc[w] = "sdk_unlock_batch" /\ pc'[w] = "done"
RowsCreated ==
    \/ chapterUnlocks' # chapterUnlocks
    \/ creditLog' # creditLog
    \/ chapterLog' # chapterLog

\* C16: the batch of unlockChapter creates the chapter_unlocks row and its two
\* log rows only if the balance was at least the cost and is reduced by the
\* cost in the same step; with a balance below the cost the call returns
\* 'Insufficient credits' and creates none of the rows.
C16_UnlockBatchAllOrNothing ==
    [][\A w \in SdkCallers :
          BatchReturns(w) =>
              /\ RowsCreated =>
                    /\ sdkGetBalance(req[w].user) >= req[w].amount
                    /\ userCredits'[req[w].user] = userCredits[req[w].user] - req[w].amount
                    /\ chapterUnlocks' = chapterUnlocks \cup {<<req[w].user, req[w].chapter>>}
                    /\ Len(creditLog') = Len(creditLog) + 1
                    /\ Len(chapterLog') = Len(chapterLog) + 1
              /\ sdkGetBalance(req[w].user) < req[w].amount =>
                    /\ ~resp'[w].success /\ resp'[w].error = "Insufficient credits"
                    /\ ~RowsCreated]_vars

\* s is an initial segment of t.
IsPrefix(s, t) == Len(s) <= Len(t) /\ \A i \in 1..Len(s) : s[i] = t[i]

\* C17: no step updates or deletes a committed log row, and no user balance is
\* kept as a stored value that a step rewrites: the log is the only credit state.
C17_LogIsOnlyCreditState ==
    [][/\ IsPrefix(creditLog, creditLog')
       /\ IsPrefix(ledger, ledger')
       /\ userCredits' = userCredits]_vars

\* Unlock request w is answered in this step.
UnlockAnswered(w) == req[w].op = "unlock" /\ pc[w] # "done" /\ pc'[w] = "done"

\* C18: the entitlement of a (user, chapter) is never removed, and an unlock
\* request that is answered once the entitlement exists, whether it arrived
\* later or ran concurrently with the request that created it, is a no-op
\* success: it is answered 200 and has committed no ledger entry.
C18_EntitlementOnceAndForAll ==
    [][/\ userChapters \subseteq userChapters'
       /\ \A w \in Workers :
             (UnlockAnswered(w) /\ Entitled(req[w].user, req[w].chapter))
                 => resp'[w].success /\ Committed(w) = {}]_vars

\* The entries written by admin grants and admin deducts of this run.
AdminEntries ==
    {i \in 1..Len(ledger) : ledger[i].txId > 0
                              /\ ledger[i].ttype \in {"ADMIN_ADD", "ADMIN_REMOVE"}}

\* C19: every ledger entry written by an admin grant or an admin deduct carries
\* the acting admin's id in admin_user_id.
C19_AdminEntriesNameTheAdmin ==
    \A i \in AdminEntries : ledger[i].admin = Admin

\* C20: in no 60-second window are more than 10 unlock requests of one user let
\* through by the credit rate limit, also when requests arrive concurrently.
C20_AtMostTenPerWindow ==
    \A x \in DOMAIN admitted : admitted[x] <= RateLimit

\* C21: the credit rate limit is counted per user: a request is rejected with
\* 'Rate limit exceeded' only when the requests of that same user let through
\* in the window have used up the quota, never because of another user's.
C21_QuotaIsPerUser ==
    \A w \in RateClients :
        (Returned(w) /\ resp[w].status = 429)
            => Admitted(<<req[w].user, req[w].at>>) >= RateLimit

\* A returned evaluateGate / checkBonusEligibility call.
GateReturned(w) == w \in GateCallers /\ pc[w] = "done" /\ req[w].op = "gate"
BonusReturned(w) == w \in GateCallers /\ pc[w] = "done" /\ req[w].op = "bonus"
HasPolicy(c) == c \in DOMAIN creditGates
NoGate(w) == ~decision[w].shouldShow /\ decision[w].creditsRequired = 0

\* C22: evaluateGate reports no gate and creditsRequired = 0 for the designated
\* first/free chapter and for a chapter whose policy has gate_type 'none', at
\* every progress index and balance.
C22_FreeUnitsAreNeverGated ==
    \A w \in GateCallers :
        (/\ GateReturned(w)
         /\ \/ DesignatedFree(req[w].chapter)
            \/ /\ HasPolicy(req[w].chapter)
               /\ creditGates[req[w].chapter].gate_type = "none")
            => NoGate(w)

\* C23: for a chapter that is not the first one, evaluateGate reports no gate
\* and creditsRequired = 0 while the progress index is below the policy's
\* messages_free, 3 when the chapter has no policy row, whatever the balance.
C23_WithinFreeThresholdNoGate ==
    \A w \in GateCallers :
        (/\ GateReturned(w)
         /\ ~isFirstChapter(req[w].chapter)
         /\ messageIndex(w) < (IF HasPolicy(req[w].chapter)
                               THEN creditGates[req[w].chapter].messages_free
                               ELSE 3))
            => NoGate(w)

\* A user without credits asked about a chapter without a policy row at the
\* last index inside the default threshold, and was not gated.
C23_Witness ==
    \E w \in GateCallers :
        /\ GateReturned(w)
        /\ ~isFirstChapter(req[w].chapter)
        /\ ~HasPolicy(req[w].chapter)
        /\ messageIndex(w) = 2
        /\ getBalance(req[w].user) = 0
        /\ decision[w].reason = "free_messages_remaining"
        /\ NoGate(w)

\* C24: beyond the free threshold the reported creditsRequired comes from the
\* policy: chapter_credits for the chapter-priced gate types, and
\* ceil((index - messages_free) / messages_per_credit) for progressive gates.
C24_CostDerivedFromPolicy ==
    \A w \in GateCallers :
        (/\ GateReturned(w)
         /\ HasPolicy(req[w].chapter)
         /\ messageIndex(w) >= creditGates[req[w].chapter].messages_free)
            => LET row == creditGates[req[w].chapter]
               IN CASE row.gate_type = "progressive" ->
                          decision[w].creditsRequired =
                              Ceil(messageIndex(w) - row.messages_free, row.messages_per_credit)
                    [] row.gate_type \in {"static", "dynamic"} ->
                          decision[w].creditsRequired = row.chapter_credits
                    [] OTHER -> TRUE

\* C25: the gate decision does not depend on the balance: two evaluateGate
\* calls with the same chapter, progress index and policy return the same
\* decision, whatever the two users hold.
C25_DecisionIgnoresBalance ==
    \A w, v \in GateCallers :
        (/\ GateReturned(w) /\ GateReturned(v)
         /\ req[w].chapter = req[v].chapter
         /\ messageIndex(w) = messageIndex(v))
            => decision[w] = decision[v]

\* C26: checkBonusEligibility returns the credits of the highest tier reached
\* (1 from 300 s, 2 from 600 s, 5 from 1800 s), never a sum, and not eligible
\* with 0 credits below 300 s.
C26_HighestTierOnly ==
    \A w \in GateCallers :
        BonusReturned(w)
            => LET s == engagementSeconds(w)
                   expected == IF s >= 1800 THEN 5
                               ELSE IF s >= 600 THEN 2
                               ELSE IF s >= 300 THEN 1
                               ELSE 0
               IN /\ decision[w].bonusCredits = expected
                  /\ decision[w].eligible = (s >= 300)

\* An engagement past the last threshold was answered with the last tier.
C26_Witness ==
    \E w \in GateCallers :
        /\ BonusReturned(w)
        /\ engagementSeconds(w) > 1800
        /\ decision[w].eligible
        /\ decision[w].bonusCredits = 5

\* C27: for each (user, chapter) at most one CONSUMPTION entry is ever
\* committed, also when two unlock requests for the chapter run concurrently
\* under different or auto-generated keys.
C27_OneDebitPerChapter ==
    \A u \in Users, c \in Chapters : Cardinality(DebitsFor(u, c)) <= 1

\* The user's balance folded over the log up to and including entry i.
BalanceUpTo(i) == SumFrom(SubSeq(ledger, 1, i), ledger[i].user, 1)

\* C29: every committed entry's balance_after equals the fold of the log up to
\* and including that entry, under any interleaving of grants, spends and
\* admin adjustments.
C29_BalanceAfterIsPrefixFold ==
    \A i \in 1..Len(ledger) : ledger[i].balanceAfter = BalanceUpTo(i)

\* v is a paid unlock that the store interrupted after its debit was committed,
\* and w is the caller's retry: the same user, chapter and key, issued after v
\* returned, and answered with success.
RetryOf(v, w) ==
    /\ v # w /\ Before(v, w)
    /\ req[v].op = "unlock" /\ req[w].op = "unlock"
    /\ req[v].user = req[w].user /\ req[v].chapter = req[w].chapter
    /\ req[v].key # NoKey /\ req[v].key = req[w].key
    /\ resp[v].status = 500 /\ resp[v].error = StoreFailure
    /\ Committed(v) # {}
    /\ Returned(w) /\ resp[w].status = 200

\* C28: when a paid unlock is interrupted by a store failure after its debit
\* was committed, the retry with the same idempotency key ends with the
\* entitlement created and exactly one CONSUMPTION entry under that key.
C28_RetryAfterFailureChargesOnce ==
    \A v, w \in Workers :
        RetryOf(v, w)
            => /\ Entitled(req[w].user, req[w].chapter)
               /\ Cardinality(ConsumptionsFor(req[w].user, req[w].key)) = 1

\* The key an SDK call r runs under.
KeyOf(r) == IF r.key = NoKey /\ r.op = "sdk_unlock"
            THEN DefaultUnlockKey(r.user, r.chapter)
            ELSE r.key

\* C30: idempotency keys are scoped per user: a deduct or unlock call is
\* answered from the idempotency record (it returns at once, without running)
\* only if an earlier call of the same user under the same key has returned,
\* never because of a different user's call under that key.
C30_KeysScopedPerUser ==
    [][\A w \in SdkCallers :
          (/\ pc[w] = "idle" /\ pc'[w] = "done"
           /\ req'[w].op \in {"sdk_deduct", "sdk_unlock"}
           /\ ~resp'[w].thrown)
              => \E v \in SdkCallers \ {w} :
                    /\ Returned(v)
                    /\ req[v].user = req'[w].user
                    /\ KeyOf(req[v]) = KeyOf(req'[w])]_vars

\* C31: a successful paid unlock debits exactly the chapter's configured
\* unlock cost, and an insufficient-credits refusal is the outcome of comparing
\* the balance with that same cost.
C31_DebitIsConfiguredCost ==
    \A w \in Workers :
        PaidUnlock(w) =>
            /\ (resp[w].success /\ Committed(w) # {})
                  => /\ \A i \in Committed(w) : ledger[i].amount = unlock_cost(req[w].chapter)
                     /\ resp[w].charged = unlock_cost(req[w].chapter)
            /\ (resp[w].status = 402 /\ resp[w].error = "Insufficient credits")
                  => /\ resp[w].required = unlock_cost(req[w].chapter)
                     /\ resp[w].newBalance < unlock_cost(req[w].chapter)

\* C32: unlocking a chapter that is not marked free but costs nothing creates
\* the entitlement directly, succeeds with creditsCharged = 0 and appends no
\* ledger entry.
C32_ZeroCostUnlockIsDirect ==
    \A w \in Workers :
        (PaidUnlock(w) /\ unlock_cost(req[w].chapter) = 0)
            => /\ resp[w].success
               /\ resp[w].charged = 0
               /\ Entitled(req[w].user, req[w].chapter)
               /\ Committed(w) = {}

\* An earlier unlockChapter call with r's user, chapter and key argument has
\* returned 'Insufficient credits'.
RefusedBefore(r) ==
    \E v \in SdkCallers :
        /\ Returned(v) /\ req[v].op = "sdk_unlock"
        /\ req[v].user = r.user /\ req[v].chapter = r.chapter /\ req[v].key = r.key
        /\ ~resp[v].thrown /\ ~resp[v].success
        /\ resp[v].error = "Insufficient credits"

\* C33: after an unlock failed with insufficient credits and a grant has
\* brought the balance to at least the cost, the retry of the same unlock
\* (same or default key) is carried out and not refused again.  Calls of other
\* users under the same key are left out: they are the subject of C30.
C33_RetryAfterGrantSucceeds ==
    [][\A w \in SdkCallers :
          (/\ pc[w] = "idle" /\ pc'[w] # "idle"
           /\ req'[w].op = "sdk_unlock"
           /\ RefusedBefore(req'[w])
           /\ \A x \in SdkCallers \ {w} :
                 KeyOf(req[x]) = KeyOf(req'[w]) => req[x].user = req'[w].user
           /\ ~hasUnlockedChapter(req'[w].user, req'[w].chapter)
           /\ sdkGetBalance(req'[w].user) >= req'[w].amount)
              => ~(pc'[w] = "done" /\ ~resp'[w].success)]_vars

\* A returned CreditManager.spend or addCredits call that reported success.
CMSucceeded(w) ==
    w \in Callers /\ Returned(w) /\ req[w].op \in {"spend", "add"} /\ resp[w].success

\* C34: spend and addCredits return success only when the log holds an entry
\* of that user under the request's idempotency key, and the transaction id
\* and newBalance they return are that entry's id and balance_after.
C34_SuccessNamesAnEntry ==
    \A w \in Callers :
        CMSucceeded(w)
            => \E i \in KeyEntries(req[w].user, usedIdempotencyKey(w)) :
                  /\ ledger[i].txId = resp[w].txId
                  /\ ledger[i].balanceAfter = resp[w].newBalance

\* A grant under a caller's key succeeded, and a spend was answered from an
\* entry it did not commit itself.
C34_Witness ==
    /\ \E v \in Callers :
          CMSucceeded(v) /\ req[v].op = "add" /\ req[v].key # NoKey /\ Committed(v) # {}
    /\ \E w \in Callers :
          CMSucceeded(w) /\ req[w].op = "spend" /\ Committed(w) = {}
             /\ resp[w].newBalance # getBalance(req[w].user)

RECURSIVE LogFold(_, _, _)
\* Sum of the credit_add amounts minus the credit_deduct amounts of u's rows
\* in log, from row i on.
LogFold(log, u, i) ==
    IF i > Len(log) THEN 0
    ELSE (IF log[i].user # u THEN 0
          ELSE IF log[i].type = "credit_add" THEN log[i].amount
          ELSE 0 - log[i].amount) + LogFold(log, u, i + 1)

\* No SDK call is between two of its statements.
SdkQuiet == \A w \in SdkCallers : pc[w] \in {"idle", "done"}

\* C35: in the user_credits implementation the stored balance of every user
\* equals the fold of their credit_transactions rows after any sequence of
\* addCredits, deductCredits and unlockChapter calls, failed ones included.
C35_StoredBalanceIsLogFold ==
    SdkQuiet => \A u \in SdkUsers : sdkGetBalance(u) = LogFold(creditLog, u, 1)

\* C36: a store failure during spend reaches the caller as an infrastructure
\* failure: the unlock is not answered with the payment-required status that
\* stands for insufficient credits.
C36_StoreFailureIsNotPaymentRequired ==
    \A w \in Workers :
        (Returned(w) /\ req[w].op = "unlock" /\ spendResult[w].error = "Transaction failed")
            => resp[w].status >= 500

\* Request w for the messages of a chapter that is not free is answered now.
PaidMessagesAnswered(w) ==
    /\ req[w].op = "messages" /\ ~is_free(req[w].chapter)
    /\ pc[w] # "done" /\ pc'[w] = "done"

\* C37: the messages of a non-free chapter are returned only if the user's
\* entitlement exists; otherwise the request is refused with 'Chapter locked'
\* and writes no read progress, read counter or event.  Progress, completion,
\* counters and events of non-free chapters exist only where an entitlement does.
C37_LockedChaptersStayClosed ==
    /\ [][\A w \in Workers :
            PaidMessagesAnswered(w) =>
                IF resp'[w].status = 200
                THEN Entitled(req[w].user, req[w].chapter)
                ELSE /\ resp'[w].status = 403 /\ resp'[w].error = "Chapter locked"
                     /\ ~Entitled(req[w].user, req[w].chapter)
                     /\ UNCHANGED readVars]_vars
    /\ [](/\ \A uc \in readProgress \cup completed : uc \in userChapters
          /\ \A e \in chapterEvents :
                is_free(e.chapter) \/ Entitled(e.user, e.chapter)
          /\ \A c \in Catalog :
                totalReads[c] > 0 => (is_free(c) \/ \E u \in Users : Entitled(u, c)))

\* The messages of a paid chapter were returned to the user who had unlocked
\* it, and the read progress, counter and event were written.
C37_Witness ==
    \E w \in Workers :
        /\ Returned(w) /\ req[w].op = "messages" /\ ~is_free(req[w].chapter)
        /\ resp[w].status = 200
        /\ Entitled(req[w].user, req[w].chapter)
        /\ <<req[w].user, req[w].chapter>> \in readProgress
        /\ totalReads[req[w].chapter] = 1
        /\ \E e \in chapterEvents : e.by = w

\* The welcome entries of account id.
WelcomeEntries(id) ==
    {i \in 1..Len(ledger) :
        /\ ledger[i].user = id /\ ledger[i].ttype = "BONUS"
        /\ ledger[i].amount = 50 /\ ledger[i].key = WelcomeKey(id)}

\* C38: once the register or Google login call that created an account has
\* returned, the account has exactly one BONUS entry of 50 under welcome_<id>
\* and its balance is 50, also when accounts are created concurrently.
C38_EveryAccountIsWelcomed ==
    \A w \in AuthCallers :
        (pc[w] = "done" /\ req[w].op \in {"register", "google"} /\ req[w].user # None) =>
            /\ Cardinality(WelcomeEntries(req[w].user)) = 1
            /\ getBalance(req[w].user) = 50

\* How often event e occurs in the store, in the queue, and in the batches of
\* the flushes in progress.
Written(e) == Cardinality({i \in DOMAIN storedEvents : storedEvents[i] = e})
Queued(e) == Cardinality({i \in DOMAIN eventQueue : eventQueue[i] = e})
Flushing(e) ==
    Cardinality({x \in inFlight \X (1..NumEvents) :
                    x[2] \in DOMAIN x[1].batch /\ x[1].batch[x[2]] = e})

\* C39 as stated: every accepted event is written to the store exactly once
\* or is still in the queue.
C39_StoredOnceOrQueued ==
    \A e \in accepted :
        \/ Written(e) = 1 /\ Queued(e) = 0
        \/ Written(e) = 0 /\ Queued(e) = 1

\* C39: every event accepted by trackEvent is written to the store exactly
\* once, or is still in the queue, or is in the batch of a flushEvents call
\* that has not returned; it is in exactly one of these places, once.  No
\* event is dropped or written twice, and an event whose trackEvent call threw
\* is nowhere.
C39_NoEventLostOrDoubled ==
    /\ \A e \in accepted : Written(e) + Queued(e) + Flushing(e) = 1
    /\ \A e \in Events \ accepted : Written(e) + Queued(e) + Flushing(e) = 0
    /\ inFlight = {} => \A e \in accepted : Written(e) = 1 \/ Queued(e) = 1

\* The shutdown flush failed and put its batch back, some events are written,
\* and a later flush is carrying events again.
C39_Witness ==
    /\ shutdown.state = "failed"
    /\ storedEvents # <<>>
    /\ inFlight # {}
    /\ accepted = Events

\* C40: when shutdownAnalytics returns and its flush was written, the flush
\* timer is stopped and none of the events that were queued when it was
\* called is still in the queue.
C40_ShutdownDrainsQueue ==
    [][(shutdown.state # "done" /\ shutdown'.state = "done") =>
          /\ flushTimer' = FALSE
          /\ Range(eventQueue') \cap shutdown'.queued = {}]_vars

====
